---- MODULE Spec2Model ----
(***************************************************************************)
(* Model of the Macroeconomic News Release Analyst agent: the release      *)
(* tracker (upcoming_releases table), the notification gate (duplicate and *)
(* rate-limit rules over the briefings table), the dispatch loop and the   *)
(* two scheduled cycles, run_daily_briefing and check_high_impact_releases.*)
(*                                                                         *)
(* Both cycles are coroutines started by the AsyncIOScheduler on the same  *)
(* event loop, so they interleave at every await (network fetch, aiosqlite *)
(* call, notifier.send).  One action of the model is the code between two  *)
(* awaits of one coroutine, together with the effect of the awaited call.  *)
(*                                                                         *)
(* Time is datetime.utcnow(), modelled as the integer now; the ISO-8601    *)
(* strings the store compares order exactly as the instants they encode,   *)
(* so the SQL string comparisons are integer comparisons here.  A nullable *)
(* column is a sequence: << >> is NULL, <<v>> is the value v.              *)
(***************************************************************************)
EXTENDS Integers, Sequences, FiniteSets, TLC

\* ---- bounds of the model -------------------------------------------------
MaxTime == 3
MaxBriefings == 2
MaxYield == 2
MaxKeyPoints == 2
MaxBatch == 2
MaxNews == 7
MaxFetched == 11
MaxChecks == 1
MaxCalls == 4

\* ---- program constants of the analyzer; polarities in hundredths ----------
SentimentThresholdDefault == 10
MinContentLength == 50
MaxPunctuation == 3
MinManipulationKeywords == 2
MaxCapsMatches == 2
ExtremePolarity == 80

\* ---- program constants of generate_briefing --------------------------------
KeyPointsLimit == 5
TitleLimit == 100
NewsItemsLimit == 10
IndicatorsLimit == 5

\* ---- program constants of start_scheduler ------------------------------------
HighImpactCheckMinutes == 15

\* ---- program constants, in model ticks -----------------------------------
\* The source's windows are 30 minutes, 1 hour, 24 hours and 168 hours; the
\* model keeps their order on a shorter scale.
MinInterval == 2
DueHoursAhead == 2
HoursLookback == 3
WeekHoursAhead == 8

Cycles == {"daily", "high_impact"}

SendOutcomes == {"ok", "fail", "raise"}

Hashes == {"h1", "h2"}

Forecasts == {"f1", "f2"}

\* The releases a calendar source may know.  A release keeps its identifier,
\* release time and impact level across fetches; its forecast value is what a
\* re-fetch may change.
IndicatorIds == {"cpi", "nfp", "pmi"}

ReleaseTimeOf(id) == IF id = "nfp" THEN 3 ELSE 2

ImpactOf(id) == IF id = "pmi" THEN "low" ELSE "high"

EconomicIndicator(id, forecast) ==
    [id |-> id, release_time |-> ReleaseTimeOf(id),
     impact_level |-> ImpactOf(id), forecast_value |-> forecast]

\* UpcomingRelease(indicator=...) : notified defaults to False.
UpcomingRelease(indicator) == [indicator |-> indicator, notified |-> FALSE]

VARIABLES
    notifiers,         \* self._notifiers: channel names, in list order
    calendar,          \* ids of the releases the data sources publish, in fetch order
    now,               \* datetime.utcnow()
    releases,          \* table upcoming_releases: id -> row
    briefings,         \* table briefings: the rows, in insertion order (id = index)
    notification_log,  \* table notification_log: the rows, in insertion order
    marked,            \* history: ids on which mark_release_notified updated a row
    pc,                \* position of each cycle's coroutine
    briefing,          \* send_briefing / cycle local: id of the briefing in hand, 0 = none
    news,              \* generate_briefing local: fingerprint of the fetched content
    indicators,        \* generate_briefing local: ids of the retained indicators
    trigger,           \* generate_briefing argument trigger_indicator (<< >> = None)
    sent,              \* send_briefing local "sent"
    nidx,              \* send_briefing: index of the notifier being tried
    gate,              \* which return of send_briefing was taken
    ret,               \* send_briefing's return value
    fetched,           \* update_release_schedule: indicators left to save
    upcoming,          \* check_high_impact_releases: releases left to visit
    source_runs,       \* fetch_all_news / fetch_all_indicators called directly: what each source did
    fetch_return,      \* ... and the list the call returned
    store_error,       \* history: a store operation raised in the cycle's current run
    delivered,         \* history: ids of the briefings for which a notifier.send returned True
    fingerprinted,     \* generate_briefing called on given content: the briefings it built
    analyzer_args,     \* the arguments SentimentAnalyzer(...) was called with
    analyzer,          \* the SentimentAnalyzer under test: << >> before construction
    scorer,            \* TextBlob polarity of the texts scored so far (a fixed function of the text)
    sentiment_call,    \* analyze_sentiment called directly: its text and what it returned
    news_item,         \* process_item's argument
    processed,         \* ... and the item it returned
    batch,             \* aggregate_sentiment's argument
    aggregate,         \* ... and what it returned: <<weighted sum, total weight, sentiment>>
    send_calls,        \* history: the notifier.send calls made, in order, each with its outcome
    key_points_call,   \* _generate_key_points called directly: its argument and what it returned
    briefing_table,    \* save_briefing / get_briefing called directly: the rows, what was saved, what was read
    schedule_call,     \* update_release_schedule called directly: where its loop stands, what it did
    compose_call,      \* generate_briefing called directly: its trigger, what was fetched, what it retained
    alert_call,        \* history of check_high_impact_releases: its runs, and the store as its query saw it
    lifecycle,         \* self._scheduler, self._running, settings.daily_briefing_time, and the calls made
    daily_result       \* what run_daily_briefing last returned: -1 nothing yet, 0 None, k briefing k

config == <<notifiers, calendar>>
store == <<releases, briefings, notification_log, marked>>
genLocals == <<news, indicators, trigger>>
sendLocals == <<briefing, sent, nidx, gate, ret>>
hiLocals == <<fetched, upcoming>>
callerView == <<source_runs, fetch_return, store_error, delivered, daily_result>>
directCalls == <<key_points_call, briefing_table, schedule_call, compose_call, alert_call,
                 lifecycle>>
analysis == <<fingerprinted, analyzer_args, analyzer, scorer, sentiment_call, news_item,
              processed, batch, aggregate, directCalls>>
vars == <<config, analysis, send_calls, callerView, now, store, pc, genLocals, sendLocals, hiLocals>>

\* ---- helpers -------------------------------------------------------------
Range(s) == {s[k] : k \in 1..Len(s)}

RECURSIVE SortByReleaseTimeDescending(_)
\* ORDER BY release_time DESC.
SortByReleaseTimeDescending(S) ==
    IF S = {} THEN << >>
    ELSE LET first == CHOOSE r \in S : \A q \in S : r.release_time >= q.release_time
         IN  <<first>> \o SortByReleaseTimeDescending(S \ {first})

RECURSIVE SortByReleaseTime(_)
\* ORDER BY release_time ASC over a set of rows (rows with equal release times
\* come in an order of the engine's choosing).
SortByReleaseTime(S) ==
    IF S = {} THEN << >>
    ELSE LET first == CHOOSE r \in S : \A q \in S : r.release_time <= q.release_time
         IN  <<first>> \o SortByReleaseTime(S \ {first})

\* ---- BriefingStorage -----------------------------------------------------
\* save_upcoming_release: INSERT OR REPLACE of the whole row, keyed by id.
SaveUpcomingRelease(rel, release) ==
    LET id == release.indicator.id
        row == [release_time |-> release.indicator.release_time,
                impact_level |-> release.indicator.impact_level,
                notified |-> release.notified,
                full_data |-> [indicator |-> release.indicator,
                               notified |-> release.notified]]
    IN  [i \in DOMAIN rel \cup {id} |-> IF i = id THEN row ELSE rel[i]]

\* get_upcoming_releases with the "AND impact_level = 'high'" query never chosen.
GetUpcomingReleasesAnyImpact(rel, t, hours_ahead, high_impact_only) ==
    LET rows == {rel[i] : i \in {j \in DOMAIN rel :
                    /\ rel[j].release_time > t
                    /\ rel[j].release_time <= t + hours_ahead}}
        sorted == SortByReleaseTime(rows)
    IN  [k \in 1..Len(sorted) |->
            [indicator |-> sorted[k].full_data.indicator,
             notified |-> sorted[k].full_data.notified]]

\* get_upcoming_releases: rows with now < release_time <= now + hours_ahead,
\* by release time; each is rebuilt from the row's full_data JSON.
GetUpcomingReleases(rel, t, hours_ahead, high_impact_only) ==
    LET rows == {rel[i] : i \in {j \in DOMAIN rel :
                    /\ rel[j].release_time > t
                    /\ rel[j].release_time <= t + hours_ahead
                    /\ (high_impact_only => rel[j].impact_level = "high")}}
        sorted == SortByReleaseTime(rows)
    IN  [k \in 1..Len(sorted) |->
            [indicator |-> sorted[k].full_data.indicator,
             notified |-> sorted[k].full_data.notified]]

\* mark_release_notified flipping the flag (SET notified = NOT notified).
MarkReleaseNotifiedToggle(rel, id) ==
    [i \in DOMAIN rel |->
        IF i = id THEN [rel[i] EXCEPT !.notified = ~rel[i].notified] ELSE rel[i]]

\* mark_release_notified: UPDATE ... SET notified = 1 WHERE id = ?
MarkReleaseNotified(rel, id) ==
    [i \in DOMAIN rel |-> IF i = id THEN [rel[i] EXCEPT !.notified = TRUE] ELSE rel[i]]

\* save_briefing of a freshly generated briefing (uuid4 id: a new row).
SaveBriefing(rows, b) == Append(rows, b)

\* is_duplicate with the "sent = 1" condition forgotten.
IsDuplicateAnySaved(rows, t, content_hash, hours_lookback) ==
    LET cutoff == t - hours_lookback
    IN  Cardinality({k \in 1..Len(rows) :
            /\ rows[k].content_hash = content_hash
            /\ rows[k].created_at > cutoff}) > 0

\* is_duplicate: COUNT(*) WHERE content_hash = ? AND sent = 1 AND created_at > cutoff
IsDuplicate(rows, t, content_hash, hours_lookback) ==
    LET cutoff == t - hours_lookback
    IN  Cardinality({k \in 1..Len(rows) :
            /\ rows[k].content_hash = content_hash
            /\ rows[k].sent
            /\ rows[k].created_at > cutoff}) > 0

\* get_last_notification_time: the greatest sent_at of a sent row, or None.
GetLastNotificationTime(rows) ==
    LET S == {k \in 1..Len(rows) : rows[k].sent /\ rows[k].sent_at # << >>}
    IN  IF S = {} THEN << >>
        ELSE <<(CHOOSE t \in {rows[k].sent_at[1] : k \in S} :
                    \A k \in S : rows[k].sent_at[1] <= t)>>

\* can_send_notification with "elapsed > interval" for "elapsed >= interval".
CanSendNotificationStrict(rows, t, min_interval) ==
    LET last_time == GetLastNotificationTime(rows)
    IN  IF last_time = << >> THEN TRUE
        ELSE (t - last_time[1]) > min_interval

\* can_send_notification
CanSendNotification(rows, t, min_interval) ==
    LET last_time == GetLastNotificationTime(rows)
    IN  IF last_time = << >> THEN TRUE
        ELSE (t - last_time[1]) >= min_interval

\* mark_briefing_sent with the "WHERE id = ?" forgotten.
MarkBriefingSentAll(rows, t, id) ==
    [k \in 1..Len(rows) |-> [rows[k] EXCEPT !.sent = TRUE, !.sent_at = <<t>>]]

\* mark_briefing_sent: UPDATE briefings SET sent = 1, sent_at = now WHERE id = ?
MarkBriefingSent(rows, t, id) ==
    [k \in 1..Len(rows) |->
        IF k = id THEN [rows[k] EXCEPT !.sent = TRUE, !.sent_at = <<t>>] ELSE rows[k]]

\* One call "await notifier.send(briefing)" of the dispatch loop and how it ended.
SendCall(briefing_id, channel, outcome) ==
    [briefing_id |-> briefing_id, channel |-> channel, outcome |-> outcome]

\* log_notification whose INSERT never reaches the table.
LogNotificationLost(log, briefing_id, channel, success, error_message) == log

\* log_notification: one appended row.  Its sent_at column is written from
\* utcnow() and read by nothing; the model leaves it out.
LogNotification(log, briefing_id, channel, success, error_message) ==
    Append(log, [briefing_id |-> briefing_id, channel |-> channel,
                 success |-> success, error_message |-> error_message])

\* ---- the sources ---------------------------------------------------------
\* fetch_all_indicators: what the sources yield in one fetch: any sub-list of
\* the known releases, each with the forecast the source reports now.
FetchResults ==
    {SelectSeq([k \in 1..Len(calendar) |-> EconomicIndicator(calendar[k], f[k])],
               LAMBDA ind : ind.forecast_value # "absent") :
        f \in [1..Len(calendar) -> Forecasts \cup {"absent"}]}

\* ---- initial state -------------------------------------------------------
\* A fresh database and both jobs idle, for an agent built with the given
\* notifiers over sources publishing the given releases.
InitWith(channels, published) ==
    /\ notifiers = channels
    /\ calendar = published
    /\ now = 0
    /\ releases = << >>
    /\ briefings = << >>
    /\ notification_log = << >>
    /\ marked = {}
    /\ pc = [p \in Cycles |-> "idle"]
    /\ briefing = [p \in Cycles |-> 0]
    /\ news = [p \in Cycles |-> "none"]
    /\ indicators = [p \in Cycles |-> << >>]
    /\ trigger = [p \in Cycles |-> << >>]
    /\ sent = [p \in Cycles |-> FALSE]
    /\ nidx = [p \in Cycles |-> 0]
    /\ gate = [p \in Cycles |-> "none"]
    /\ ret = [p \in Cycles |-> "none"]
    /\ fetched = << >>
    /\ upcoming = << >>
    /\ source_runs = << >>
    /\ fetch_return = << >>
    /\ store_error = [p \in Cycles |-> FALSE]
    /\ delivered = {}
    /\ send_calls = << >>
    /\ key_points_call = [news_items |-> << >>, returned |-> << >>]
    /\ briefing_table = [rows |-> << >>, saved |-> << >>, got |-> << >>]
    /\ schedule_call = [at |-> "idle", left |-> << >>, checked_at |-> 0, done |-> << >>]
    /\ compose_call = << >>
    /\ alert_call = [runs |-> 0, asked_at |-> 0, stored |-> << >>, first |-> 0]
    /\ lifecycle = [daily_briefing_time |-> <<"0", "8", ":", "0", "0">>, scheduler |-> << >>,
                    running |-> FALSE, created |-> 0, calls |-> << >>]
    /\ fingerprinted = << >>
    /\ analyzer_args = << >>
    /\ analyzer = << >>
    /\ batch = << >>
    /\ aggregate = << >>
    /\ scorer = << >>
    /\ sentiment_call = << >>
    /\ news_item = << >>
    /\ processed = << >>
    /\ daily_result = -1

\* the clock
Tick ==
    /\ now < MaxTime
    /\ now' = now + 1
    /\ UNCHANGED <<config, analysis, send_calls, callerView, store, pc, genLocals, sendLocals, hiLocals>>

\* ---- generate_briefing ---------------------------------------------------
\* Bound of the model: briefings stored or about to be stored.
BriefingsInHand ==
    Len(briefings) + Cardinality({p \in Cycles : pc[p] \in {"gen_releases", "gen_save"}})

\* run_daily_briefing is entered: generate_briefing("daily") awaits fetch_all_news.
StartDailyBriefing ==
    /\ pc["daily"] = "idle"
    /\ pc' = [pc EXCEPT !["daily"] = "gen_news"]
    /\ UNCHANGED <<config, analysis, send_calls, callerView, now, store, genLocals, sendLocals, hiLocals>>

\* fetch_all_news returns; sentiment and key points, hence the fingerprint,
\* are whatever the sources published.  get_upcoming_releases is awaited next.
FetchAllNews(p) ==
    /\ pc[p] = "gen_news"
    /\ BriefingsInHand < MaxBriefings
    /\ \E h \in Hashes : news' = [news EXCEPT ![p] = h]
    /\ pc' = [pc EXCEPT ![p] = "gen_releases"]
    /\ UNCHANGED <<config, analysis, send_calls, callerView, now, store, indicators, trigger, sendLocals, hiLocals>>

\* indicators = [trigger] + indicators, cut to 5: the trigger's own release is
\* not taken out of the list.
RetainedIndicatorsWithTriggerKept(ups, trig) ==
    LET ids == [k \in 1..Len(ups) |-> ups[k].indicator.id]
        all == IF trig = << >> THEN ids ELSE <<trig[1].id>> \o ids
    IN  SubSeq(all, 1, IF Len(all) < IndicatorsLimit THEN Len(all) ELSE IndicatorsLimit)

\* indicators = [trigger] + [i for i in indicators if i.id != trigger.id], cut to 5.
RetainedIndicators(ups, trig) ==
    LET ids == [k \in 1..Len(ups) |-> ups[k].indicator.id]
        all == IF trig = << >> THEN ids
               ELSE <<trig[1].id>> \o SelectSeq(ids, LAMBDA i : i # trig[1].id)
    IN  SubSeq(all, 1, IF Len(all) < IndicatorsLimit THEN Len(all) ELSE IndicatorsLimit)

\* get_upcoming_releases(hours_ahead=168, high_impact_only=True) returns.
GenGetUpcomingReleases(p) ==
    /\ pc[p] = "gen_releases"
    /\ indicators' = [indicators EXCEPT ![p] =
            RetainedIndicators(GetUpcomingReleases(releases, now, WeekHoursAhead, TRUE),
                               trigger[p])]
    /\ pc' = [pc EXCEPT ![p] = "gen_save"]
    /\ UNCHANGED <<config, analysis, send_calls, callerView, now, store, news, trigger, sendLocals, hiLocals>>

BriefingType(p) == IF p = "daily" THEN "daily" ELSE "high_impact"

\* A briefing built already flagged as sent.
SentimentBriefingSent(t, briefing_type, content_hash, inds) ==
    [created_at |-> t, briefing_type |-> briefing_type, content_hash |-> content_hash,
     indicators |-> inds, sent |-> TRUE, sent_at |-> << >>]

\* SentimentBriefing(...) as generate_briefing builds it: sent = False, sent_at = None.
SentimentBriefing(t, briefing_type, content_hash, inds) ==
    [created_at |-> t, briefing_type |-> briefing_type, content_hash |-> content_hash,
     indicators |-> inds, sent |-> FALSE, sent_at |-> << >>]

\* The briefing is built (created_at = utcnow()) and save_briefing stores it;
\* generate_briefing returns and send_briefing awaits is_duplicate.
GenSaveBriefing(p) ==
    /\ pc[p] = "gen_save"
    /\ briefings' = SaveBriefing(briefings,
            SentimentBriefing(now, BriefingType(p), news[p], indicators[p]))
    /\ briefing' = [briefing EXCEPT ![p] = Len(briefings) + 1]
    /\ pc' = [pc EXCEPT ![p] = "gate_dup"]
    /\ UNCHANGED <<config, analysis, send_calls, callerView, now, releases, notification_log, marked, genLocals,
                   sent, nidx, gate, ret, hiLocals>>

\* ---- send_briefing -------------------------------------------------------
\* is_duplicate(briefing.content_hash) returns.
GateIsDuplicate(p) ==
    /\ pc[p] = "gate_dup"
    /\ IF IsDuplicate(briefings, now, briefings[briefing[p]].content_hash, HoursLookback)
       THEN /\ gate' = [gate EXCEPT ![p] = "duplicate"]
            /\ ret' = [ret EXCEPT ![p] = "false"]
            /\ pc' = [pc EXCEPT ![p] = "returned"]
       ELSE /\ pc' = [pc EXCEPT ![p] = "gate_rate"]
            /\ UNCHANGED <<gate, ret>>
    /\ UNCHANGED <<config, analysis, send_calls, callerView, now, store, genLocals, briefing, sent, nidx, hiLocals>>

\* The dispatch loop leaving at the first success ("break" after sent = True).
AfterNotifierFirstSuccess(n, sent_now) ==
    IF sent_now THEN "mark_sent"
    ELSE IF n < Len(notifiers) THEN "send" ELSE "returned"

\* Where send_briefing goes once notifier number n has been handled.
AfterNotifier(n, sent_now) ==
    IF n < Len(notifiers) THEN "send"
    ELSE IF sent_now THEN "mark_sent" ELSE "returned"

\* send_briefing with the rate-limit rejection recorded in the notification log.
GateCanSendLogged(p) ==
    /\ pc[p] = "gate_rate"
    /\ IF ~CanSendNotification(briefings, now, MinInterval)
       THEN /\ gate' = [gate EXCEPT ![p] = "rate_limited"]
            /\ ret' = [ret EXCEPT ![p] = "false"]
            /\ pc' = [pc EXCEPT ![p] = "returned"]
            /\ notification_log' = LogNotification(notification_log, briefing[p],
                                                   "gate", FALSE, <<"rate limited">>)
            /\ UNCHANGED <<sent, nidx>>
       ELSE /\ gate' = [gate EXCEPT ![p] = "passed"]
            /\ sent' = [sent EXCEPT ![p] = FALSE]
            /\ nidx' = [nidx EXCEPT ![p] = IF Len(notifiers) > 0 THEN 1 ELSE 0]
            /\ ret' = [ret EXCEPT ![p] = IF Len(notifiers) > 0 THEN "none" ELSE "false"]
            /\ pc' = [pc EXCEPT ![p] = AfterNotifier(0, FALSE)]
            /\ UNCHANGED notification_log
    /\ UNCHANGED <<config, analysis, send_calls, callerView, now, releases, briefings, marked, genLocals, briefing, hiLocals>>

\* can_send_notification(min_notification_interval_minutes) returns; on success
\* the dispatch loop starts with sent = False.
GateCanSend(p) ==
    /\ pc[p] = "gate_rate"
    /\ IF ~CanSendNotification(briefings, now, MinInterval)
       THEN /\ gate' = [gate EXCEPT ![p] = "rate_limited"]
            /\ ret' = [ret EXCEPT ![p] = "false"]
            /\ pc' = [pc EXCEPT ![p] = "returned"]
            /\ UNCHANGED <<sent, nidx>>
       ELSE /\ gate' = [gate EXCEPT ![p] = "passed"]
            /\ sent' = [sent EXCEPT ![p] = FALSE]
            /\ nidx' = [nidx EXCEPT ![p] = IF Len(notifiers) > 0 THEN 1 ELSE 0]
            /\ ret' = [ret EXCEPT ![p] = IF Len(notifiers) > 0 THEN "none" ELSE "false"]
            /\ pc' = [pc EXCEPT ![p] = AfterNotifier(0, FALSE)]
    /\ UNCHANGED <<config, analysis, send_calls, callerView, now, store, genLocals, briefing, hiLocals>>

\* "sent = True" outside the "if success".
DispatchSentAlways(sent_before, success) == TRUE

\* if success: sent = True
DispatchSent(sent_before, success) == IF success THEN TRUE ELSE sent_before

\* One pass of the loop body: notifier.send(briefing) completes (True, False or
\* an exception), log_notification stores the attempt (from the try body or
\* from the except clause), the local flag is updated and the loop moves on.
Dispatch(p) ==
    /\ pc[p] = "send"
    /\ \E o \in SendOutcomes :
        LET success == o = "ok"
            error == IF o = "raise" THEN <<"exception">> ELSE << >>
            sent_now == DispatchSent(sent[p], success)
        IN  /\ notification_log' = LogNotification(notification_log, briefing[p],
                                                   notifiers[nidx[p]], success, error)
            /\ delivered' = IF success THEN delivered \cup {briefing[p]} ELSE delivered
            /\ send_calls' = Append(send_calls, SendCall(briefing[p], notifiers[nidx[p]], o))
            /\ sent' = [sent EXCEPT ![p] = sent_now]
            /\ nidx' = [nidx EXCEPT ![p] = IF nidx[p] < Len(notifiers) THEN nidx[p] + 1 ELSE 0]
            /\ ret' = [ret EXCEPT ![p] =
                    IF AfterNotifier(nidx[p], sent_now) = "returned" THEN "false" ELSE "none"]
            /\ pc' = [pc EXCEPT ![p] = AfterNotifier(nidx[p], sent_now)]
    /\ UNCHANGED <<config, analysis, source_runs, fetch_return, store_error, daily_result, now,
                   releases, briefings, marked, genLocals, briefing, gate, hiLocals>>

\* if sent: mark_briefing_sent(briefing.id); return sent
DispatchMarkSent(p) ==
    /\ pc[p] = "mark_sent"
    /\ briefings' = MarkBriefingSent(briefings, now, briefing[p])
    /\ ret' = [ret EXCEPT ![p] = "true"]
    /\ pc' = [pc EXCEPT ![p] = "returned"]
    /\ UNCHANGED <<config, analysis, send_calls, callerView, now, releases, notification_log, marked, genLocals,
                   briefing, sent, nidx, gate, hiLocals>>

\* run_daily_briefing returns the briefing; the job is over.
DailyReturn ==
    /\ pc["daily"] = "returned"
    /\ pc' = [pc EXCEPT !["daily"] = "idle"]
    /\ daily_result' = briefing["daily"]
    /\ briefing' = [briefing EXCEPT !["daily"] = 0]
    /\ news' = [news EXCEPT !["daily"] = "none"]
    /\ indicators' = [indicators EXCEPT !["daily"] = << >>]
    /\ sent' = [sent EXCEPT !["daily"] = FALSE]
    /\ gate' = [gate EXCEPT !["daily"] = "none"]
    /\ ret' = [ret EXCEPT !["daily"] = "none"]
    /\ UNCHANGED <<config, analysis, send_calls, source_runs, fetch_return, store_error, delivered, now,
                   store, trigger, nidx, hiLocals>>

\* ---- check_high_impact_releases ------------------------------------------
\* Where update_release_schedule stands with the indicators left: the loop skips,
\* without awaiting, every indicator whose release time is not after now.
RECURSIVE LeftToSave(_, _)
LeftToSave(inds, t) ==
    IF inds = << >> THEN << >>
    ELSE IF Head(inds).release_time > t THEN inds
    ELSE LeftToSave(Tail(inds), t)

\* for release in upcoming: if not release.notified: ...  The releases left from
\* the first one the loop body handles.
RECURSIVE LeftToNotify(_)
LeftToNotify(ups) ==
    IF ups = << >> THEN << >>
    ELSE IF ~Head(ups).notified THEN ups
    ELSE LeftToNotify(Tail(ups))

\* The job is entered; update_release_schedule awaits fetch_all_indicators.
StartHighImpactCheck ==
    /\ pc["high_impact"] = "idle"
    /\ pc' = [pc EXCEPT !["high_impact"] = "fetch_indicators"]
    /\ UNCHANGED <<config, analysis, send_calls, callerView, now, store, genLocals, sendLocals, hiLocals>>

\* fetch_all_indicators returns the fetched list.
FetchAllIndicators ==
    /\ pc["high_impact"] = "fetch_indicators"
    /\ \E inds \in FetchResults :
          /\ fetched' = LeftToSave(inds, now)
          /\ pc' = [pc EXCEPT !["high_impact"] =
                        IF LeftToSave(inds, now) = << >> THEN "get_due" ELSE "save_release"]
    /\ UNCHANGED <<config, analysis, send_calls, callerView, now, store, genLocals, sendLocals, upcoming>>

\* save_upcoming_release(UpcomingRelease(indicator=indicator)) completes for the
\* next indicator with release_time > utcnow().
UpdateReleaseSchedule ==
    /\ pc["high_impact"] = "save_release"
    /\ releases' = SaveUpcomingRelease(releases, UpcomingRelease(Head(fetched)))
    /\ fetched' = LeftToSave(Tail(fetched), now)
    /\ pc' = [pc EXCEPT !["high_impact"] =
                  IF LeftToSave(Tail(fetched), now) = << >> THEN "get_due" ELSE "save_release"]
    /\ UNCHANGED <<config, analysis, send_calls, callerView, now, briefings, notification_log, marked, genLocals, sendLocals, upcoming>>

\* The cycle goes on with the releases left: it generates a briefing for the
\* first un-notified one, or returns.
VisitReleases(left) ==
    /\ upcoming' = left
    /\ IF left = << >>
       THEN /\ pc' = [pc EXCEPT !["high_impact"] = "idle"]
            /\ trigger' = [trigger EXCEPT !["high_impact"] = << >>]
       ELSE /\ pc' = [pc EXCEPT !["high_impact"] = "gen_news"]
            /\ trigger' = [trigger EXCEPT !["high_impact"] = <<Head(left).indicator>>]

\* check_high_impact_releases asking for the due releases of any impact level.
GetDueReleasesAnyImpact ==
    /\ pc["high_impact"] = "get_due"
    /\ VisitReleases(LeftToNotify(GetUpcomingReleases(releases, now, DueHoursAhead, FALSE)))
    /\ UNCHANGED <<config, analysis, send_calls, callerView, now, store, news, indicators, sendLocals, fetched>>

\* get_upcoming_releases(hours_ahead=1, high_impact_only=True) returns.
GetDueReleases ==
    /\ pc["high_impact"] = "get_due"
    /\ VisitReleases(LeftToNotify(GetUpcomingReleases(releases, now, DueHoursAhead, TRUE)))
    /\ UNCHANGED <<config, analysis, send_calls, callerView, now, store, news, indicators, sendLocals, fetched>>

\* send_briefing has returned (its result is not looked at);
\* mark_release_notified(release.indicator.id) completes and the loop goes on.
HighImpactMarkNotified ==
    LET id == Head(upcoming).indicator.id
    IN  /\ pc["high_impact"] = "returned"
        /\ releases' = MarkReleaseNotified(releases, id)
        /\ marked' = IF id \in DOMAIN releases THEN marked \cup {id} ELSE marked
        /\ VisitReleases(LeftToNotify(Tail(upcoming)))
        /\ briefing' = [briefing EXCEPT !["high_impact"] = 0]
        /\ news' = [news EXCEPT !["high_impact"] = "none"]
        /\ indicators' = [indicators EXCEPT !["high_impact"] = << >>]
        /\ sent' = [sent EXCEPT !["high_impact"] = FALSE]
        /\ gate' = [gate EXCEPT !["high_impact"] = "none"]
        /\ ret' = [ret EXCEPT !["high_impact"] = "none"]
        /\ UNCHANGED <<config, analysis, send_calls, callerView, now, briefings, notification_log, nidx, fetched>>

\* ---- the system ----------------------------------------------------------
\* generate_briefing followed by send_briefing, as either job runs them.
GenerateAndSend(p) ==
    \/ FetchAllNews(p)
    \/ GenGetUpcomingReleases(p)
    \/ GenSaveBriefing(p)
    \/ GateIsDuplicate(p)
    \/ GateCanSend(p)
    \/ Dispatch(p)
    \/ DispatchMarkSent(p)

\* The job "daily_briefing".
DailyBriefingJob ==
    \/ StartDailyBriefing
    \/ GenerateAndSend("daily")
    \/ DailyReturn

\* The job "high_impact_check".
HighImpactCheckJob ==
    \/ StartHighImpactCheck
    \/ FetchAllIndicators
    \/ UpdateReleaseSchedule
    \/ GetDueReleases
    \/ GenerateAndSend("high_impact")
    \/ HighImpactMarkNotified

Next == Tick \/ DailyBriefingJob \/ HighImpactCheckJob

NextDaily == Tick \/ DailyBriefingJob

NextTracker == Tick \/ HighImpactCheckJob

\* The scheduler running both jobs on one event loop: their coroutines
\* interleave at the awaits.  One channel, one published high-impact release.
Spec == InitWith(<<"email">>, <<"nfp">>) /\ [][Next]_vars

\* The daily job alone (as after "run once", or between two checks), with two
\* channels configured.
SpecDaily == InitWith(<<"email", "webhook">>, << >>) /\ [][NextDaily]_vars

\* The high-impact check alone, over sources publishing two high-impact
\* releases and a low-impact one.
SpecTracker == InitWith(<<"email">>, <<"cpi", "nfp", "pmi">>) /\ [][NextTracker]_vars

\* ---- BriefingStorage used directly ----------------------------------------
\* The store's release methods as any caller may use them (as the storage tests
\* do): save_upcoming_release of any release, notified or not, at any time.
SaveUpcomingReleaseCall ==
    /\ \E id \in IndicatorIds, f \in Forecasts, n \in BOOLEAN :
          releases' = SaveUpcomingRelease(releases,
                          [indicator |-> EconomicIndicator(id, f), notified |-> n])
    /\ UNCHANGED <<config, analysis, send_calls, callerView, now, briefings, notification_log, marked, pc,
                   genLocals, sendLocals, hiLocals>>

\* mark_release_notified of any id, stored or not.
MarkReleaseNotifiedCall ==
    /\ \E id \in IndicatorIds :
          /\ releases' = MarkReleaseNotified(releases, id)
          /\ marked' = IF id \in DOMAIN releases THEN marked \cup {id} ELSE marked
    /\ UNCHANGED <<config, analysis, send_calls, callerView, now, briefings, notification_log, pc,
                   genLocals, sendLocals, hiLocals>>

NextStorage == Tick \/ SaveUpcomingReleaseCall \/ MarkReleaseNotifiedCall

\* A fresh store whose release methods are called in any order.
SpecStorage == InitWith(<< >>, << >>) /\ [][NextStorage]_vars

\* The high-impact check alone, over sources publishing a high-impact release
\* and a low-impact one.
SpecLowImpact == InitWith(<<"email">>, <<"nfp", "pmi">>) /\ [][NextTracker]_vars

\* ---- fetch_all_news, fetch_all_indicators called directly ------------------
\* self._data_sources as _create_default_sources builds it, in list order.
DataSources == <<"RSS", "EconomicCalendar">>

\* NewsItem as a source yields it: no sentiment yet.
NewsItem(id, title) == [id |-> id, title |-> title, sentiment |-> "unset"]

NewsFeed == {NewsItem("n1", "rally"), NewsItem("n2", "slump")}

IndicatorFeed == {EconomicIndicator("cpi", "f1"), EconomicIndicator("nfp", "f2")}

\* SentimentAnalyzer.process_item: a copy of the item with its sentiment set.
ProcessItem(item) ==
    [item EXCEPT !.sentiment = IF item.title = "rally" THEN "bullish" ELSE "bearish"]

\* One run of a source's async generator: the items it yields, after which it
\* either ends or raises.
SourceRuns(feed) ==
    [yielded : UNION {[1..m -> feed] : m \in 0..MaxYield}, raised : BOOLEAN]

\* The loop without its try / except: the first source that raises ends the call.
RECURSIVE CollectUnguarded(_)
CollectUnguarded(runs) ==
    IF runs = << >> THEN [raised |-> FALSE, items |-> << >>]
    ELSE IF Head(runs).raised THEN [raised |-> TRUE, items |-> << >>]
    ELSE LET rest == CollectUnguarded(Tail(runs))
         IN  [raised |-> rest.raised,
              items |-> IF rest.raised THEN << >> ELSE Head(runs).yielded \o rest.items]

\* for source in self._data_sources: try: async for item in ...: append
\* except Exception: continue.  Every yielded item is appended as it arrives.
RECURSIVE Collect(_)
Collect(runs) ==
    IF runs = << >> THEN [raised |-> FALSE, items |-> << >>]
    ELSE [raised |-> FALSE, items |-> Head(runs).yielded \o Collect(Tail(runs)).items]

\* fetch_all_news() is called and returns.
FetchAllNewsCall ==
    /\ \E runs \in [1..Len(DataSources) -> SourceRuns(NewsFeed)] :
          LET got == Collect(runs)
          IN  /\ source_runs' = runs
              /\ fetch_return' = [call |-> "news", raised |-> got.raised,
                                  items |-> [k \in 1..Len(got.items) |-> ProcessItem(got.items[k])]]
    /\ UNCHANGED <<config, analysis, send_calls, store_error, delivered, daily_result, now, store, pc,
                   genLocals, sendLocals, hiLocals>>

\* fetch_all_indicators() is called and returns.
FetchAllIndicatorsCall ==
    /\ \E runs \in [1..Len(DataSources) -> SourceRuns(IndicatorFeed)] :
          LET got == Collect(runs)
          IN  /\ source_runs' = runs
              /\ fetch_return' = [call |-> "indicators", raised |-> got.raised,
                                  items |-> got.items]
    /\ UNCHANGED <<config, analysis, send_calls, store_error, delivered, daily_result, now, store, pc,
                   genLocals, sendLocals, hiLocals>>

NextFetch == FetchAllNewsCall \/ FetchAllIndicatorsCall

\* An agent over the default sources whose fetch methods are called in any order.
SpecFetch == InitWith(<<"email">>, << >>) /\ [][NextFetch]_vars

\* ---- the store failing -----------------------------------------------------
\* The positions at which a cycle awaits a store operation outside any try:
\* get_upcoming_releases, save_briefing, is_duplicate, can_send_notification,
\* mark_briefing_sent, and in the high-impact check save_upcoming_release,
\* get_upcoming_releases, mark_release_notified.
StoreAwaits(p) ==
    {"gen_releases", "gen_save", "gate_dup", "gate_rate", "mark_sent"}
    \cup (IF p = "high_impact" THEN {"save_release", "get_due", "returned"} ELSE {})

\* The awaited store operation raises (store unavailable): nothing is written
\* and the exception leaves generate_briefing / send_briefing and the cycle.
StoreRaises(p) ==
    /\ pc[p] \in StoreAwaits(p)
    /\ pc' = [pc EXCEPT ![p] = "raised"]
    /\ store_error' = [store_error EXCEPT ![p] = TRUE]
    /\ UNCHANGED <<config, analysis, send_calls, source_runs, fetch_return, delivered, daily_result, now, store,
                   genLocals, sendLocals, hiLocals>>

\* One pass of the dispatch loop in which log_notification raises.  After a
\* send that returned, the log_notification of the try body raises and the
\* except clause catches it and logs the attempt as failed with the error text;
\* "if success: sent = True" is skipped and the loop goes on.  If the
\* log_notification of the except clause raises (after a failed first one, or
\* after a send that raised), the exception leaves send_briefing.
DispatchLogRaises(p) ==
    /\ pc[p] = "send"
    /\ store_error' = [store_error EXCEPT ![p] = TRUE]
    /\ \E o \in SendOutcomes, second_raises \in BOOLEAN :
          /\ delivered' = IF o = "ok" THEN delivered \cup {briefing[p]} ELSE delivered
          /\ send_calls' = Append(send_calls, SendCall(briefing[p], notifiers[nidx[p]], o))
          /\ IF o = "raise" \/ second_raises
             THEN /\ pc' = [pc EXCEPT ![p] = "raised"]
                  /\ UNCHANGED <<notification_log, nidx, ret>>
             ELSE /\ notification_log' = LogNotification(notification_log, briefing[p],
                                              notifiers[nidx[p]], FALSE, <<"exception">>)
                  /\ nidx' = [nidx EXCEPT ![p] = IF nidx[p] < Len(notifiers) THEN nidx[p] + 1 ELSE 0]
                  /\ ret' = [ret EXCEPT ![p] =
                          IF AfterNotifier(nidx[p], sent[p]) = "returned" THEN "false" ELSE "none"]
                  /\ pc' = [pc EXCEPT ![p] = AfterNotifier(nidx[p], sent[p])]
    /\ UNCHANGED <<config, analysis, source_runs, fetch_return, daily_result, now, releases,
                   briefings, marked, genLocals, briefing, sent, gate, hiLocals>>

\* run_daily_briefing has raised: the scheduler logs the exception and the job
\* is over until its next firing.
DailyRaised ==
    /\ pc["daily"] = "raised"
    /\ pc' = [pc EXCEPT !["daily"] = "idle"]
    /\ store_error' = [store_error EXCEPT !["daily"] = FALSE]
    /\ briefing' = [briefing EXCEPT !["daily"] = 0]
    /\ news' = [news EXCEPT !["daily"] = "none"]
    /\ indicators' = [indicators EXCEPT !["daily"] = << >>]
    /\ sent' = [sent EXCEPT !["daily"] = FALSE]
    /\ nidx' = [nidx EXCEPT !["daily"] = 0]
    /\ gate' = [gate EXCEPT !["daily"] = "none"]
    /\ ret' = [ret EXCEPT !["daily"] = "none"]
    /\ UNCHANGED <<config, analysis, send_calls, source_runs, fetch_return, delivered, daily_result, now, store,
                   trigger, hiLocals>>

NextFaulty ==
    \/ NextDaily
    \/ StoreRaises("daily")
    \/ DispatchLogRaises("daily")
    \/ DailyRaised

\* The daily job alone over a store any operation of which may fail.
SpecFaulty == InitWith(<<"email">>, << >>) /\ [][NextFaulty]_vars

\* ---- the gate as a whole -------------------------------------------------
\* send_briefing lines 314-322: a briefing with this fingerprint goes on to
\* dispatch iff it is no duplicate and the rate limit allows a notification.
MaySend(content_hash) ==
    /\ ~IsDuplicate(briefings, now, content_hash, HoursLookback)
    /\ CanSendNotification(briefings, now, MinInterval)

BriefingIds == 1..Len(briefings)

\* The indicator a high-impact briefing was generated for: its first indicator.
TriggeredBy(k, id) ==
    /\ briefings[k].briefing_type = "high_impact"
    /\ briefings[k].indicators # << >>
    /\ briefings[k].indicators[1] = id

LogOf(k) == {n \in 1..Len(notification_log) : notification_log[n].briefing_id = k}

\* ---- claims --------------------------------------------------------------

\* C1: once a stored release has notified = true it never becomes false again,
\* in particular not when update_release_schedule saves the same id again.
NotifiedNeverReverts ==
    [][\A id \in DOMAIN releases :
          releases[id].notified => (id \in DOMAIN releases' /\ releases'[id].notified)]_vars

\* C2: over any sequence of checks, at most one high-impact briefing is
\* generated for one indicator id.
OneBriefingPerIndicator ==
    \A id \in IndicatorIds : Cardinality({k \in BriefingIds : TriggeredBy(k, id)}) <= 1

\* C3: once mark_release_notified has updated a release, every
\* get_upcoming_releases that returns it reports notified = true.
NotifiedVisibleOnRead ==
    \A hours_ahead \in 0..WeekHoursAhead : \A high_impact_only \in BOOLEAN :
        \A r \in Range(GetUpcomingReleases(releases, now, hours_ahead, high_impact_only)) :
            r.indicator.id \in marked => r.notified

\* C4: a release becomes notified only when the send_briefing of the briefing
\* it triggered returned True, i.e. at least one channel reported success.
NotifiedOnlyOnSuccess ==
    [][\A id \in DOMAIN releases :
          (~releases[id].notified /\ id \in DOMAIN releases' /\ releases'[id].notified)
          => /\ ret["high_impact"] = "true"
             /\ TriggeredBy(briefing["high_impact"], id)
             /\ briefings[briefing["high_impact"]].sent]_vars

\* C5: the sent_at of two distinct sent briefings are at least min_interval apart.
CooldownBetweenSent ==
    \A j, k \in BriefingIds :
        (j # k /\ briefings[j].sent /\ briefings[k].sent)
        => \/ briefings[j].sent_at[1] - briefings[k].sent_at[1] >= MinInterval
           \/ briefings[k].sent_at[1] - briefings[j].sent_at[1] >= MinInterval

\* C6: a briefing is marked sent only after a notifier.send for it returned True
\* (a successful attempt for it is in the log); a briefing whose every channel
\* returned False or raised keeps sent = false and sent_at unset.
SentOnlyAfterSuccess ==
    \A k \in BriefingIds :
        /\ briefings[k].sent =>
              /\ briefings[k].sent_at # << >>
              /\ \E n \in LogOf(k) : notification_log[n].success
        /\ (\A n \in LogOf(k) : ~notification_log[n].success) =>
              /\ ~briefings[k].sent
              /\ briefings[k].sent_at = << >>

\* One briefing was marked sent, another went through every channel without a
\* success (one returned False or raised, and so did the other) and is not sent.
SentOnlyAfterSuccessWitness ==
    \E j, k \in BriefingIds :
        /\ briefings[j].sent
        /\ Cardinality(LogOf(k)) = Len(notifiers)
        /\ \A n \in LogOf(k) : ~notification_log[n].success
        /\ \E p \in Cycles : briefing[p] = k /\ pc[p] = "returned" /\ ret[p] = "false"

RateLimitRule ==
    [][\A p \in Cycles :
          (pc[p] = "gate_rate" /\ pc'[p] # "gate_rate")
          => ((gate'[p] = "rate_limited" /\ ret'[p] = "false" /\ pc'[p] = "returned")
              <=> \E k \in BriefingIds :
                     /\ briefings[k].sent
                     /\ briefings[k].sent_at # << >>
                     /\ briefings[k].sent_at[1] > now - MinInterval)]_vars

\* The rate limit has just let a briefing through, exactly min_interval after
\* the last send.
RateLimitRuleWitness ==
    \E p \in Cycles :
        /\ gate[p] = "passed"
        /\ pc[p] = "send"
        /\ nidx[p] = 1
        /\ GetLastNotificationTime(briefings) = <<now - MinInterval>>

\* C9: with T the time the latest sent briefing, of fingerprint F, was marked
\* sent: before T + min_interval every briefing is rejected; from T + min_interval
\* until T + lookback a briefing with F is rejected and one with a never-sent
\* fingerprint is allowed.
GateRoundTrip ==
    \A k \in BriefingIds :
        (briefings[k].sent /\ briefings[k].sent_at = GetLastNotificationTime(briefings))
        => LET T == briefings[k].sent_at[1]
               F == briefings[k].content_hash
               NeverSent(h) == \A j \in BriefingIds : briefings[j].sent => briefings[j].content_hash # h
           IN  /\ now < T + MinInterval => \A h \in Hashes : ~MaySend(h)
               /\ (T + MinInterval <= now /\ now < T + HoursLookback)
                  => /\ ~MaySend(F)
                     /\ \A h \in Hashes : NeverSent(h) => MaySend(h)

\* C10: a send_briefing rejected by either gate rule returns False having
\* dispatched nothing: no log entry exists or is added for the briefing, and no
\* briefing row changes.
GateRejectionFrame ==
    [][\A p \in Cycles :
          (pc[p] \in {"gate_dup", "gate_rate"} /\ gate'[p] \in {"duplicate", "rate_limited"})
          => /\ ret'[p] = "false"
             /\ pc'[p] = "returned"
             /\ notification_log' = notification_log
             /\ LogOf(briefing[p]) = {}
             /\ briefings' = briefings
             /\ ~briefings[briefing[p]].sent
             /\ briefings[briefing[p]].sent_at = << >>]_vars

\* send_briefing has returned from the rate-limit rejection of a briefing, some
\* earlier briefing being sent.
GateRejectionFrameWitness ==
    \E p \in Cycles :
        /\ gate[p] = "rate_limited"
        /\ pc[p] = "returned"
        /\ \E k \in BriefingIds : briefings[k].sent

\* C11: the gate's bookkeeping is written once per briefing: sent_at, once set,
\* is never written again, and the one step that writes it is the
\* mark_briefing_sent that ends the send_briefing of that briefing, after the
\* dispatch loop, however many channels succeeded.
MarkedSentOnce ==
    [][\A k \in BriefingIds :
          /\ briefings[k].sent_at # << >>
             => (briefings'[k].sent /\ briefings'[k].sent_at = briefings[k].sent_at)
          /\ briefings'[k].sent_at # briefings[k].sent_at
             => \E p \in Cycles :
                   /\ pc[p] = "mark_sent" /\ briefing[p] = k /\ sent[p]
                   /\ pc'[p] = "returned" /\ ret'[p] = "true"
                   /\ briefings'[k].sent_at = <<now>>]_vars

\* Every channel succeeded for a briefing (two successes in its log), it was
\* marked sent, time went on and a later briefing was marked sent too.
MarkedSentOnceWitness ==
    \E j, k \in BriefingIds :
        /\ Cardinality({n \in LogOf(k) : notification_log[n].success}) >= 2
        /\ briefings[k].sent /\ briefings[j].sent
        /\ briefings[k].sent_at[1] < briefings[j].sent_at[1]

\* C12: get_upcoming_releases(hours_ahead = L, high_impact_only = True) returns
\* exactly the stored releases with now < release_time <= now + L and high
\* impact, each once, in ascending order of release time.
DueRule ==
    \A L \in 0..WeekHoursAhead :
        LET due == GetUpcomingReleases(releases, now, L, TRUE)
            ids == {id \in DOMAIN releases :
                        /\ now < releases[id].release_time
                        /\ releases[id].release_time <= now + L
                        /\ releases[id].impact_level = "high"}
        IN  /\ {r.indicator.id : r \in Range(due)} = ids
            /\ Len(due) = Cardinality(ids)
            /\ \A k \in 1..Len(due) :
                   due[k].indicator = releases[due[k].indicator.id].full_data.indicator
            /\ \A j, k \in 1..Len(due) :
                   j < k => due[j].indicator.release_time <= due[k].indicator.release_time

\* Two high-impact releases are due, the earlier one first, while a low-impact
\* release inside the window is stored and left out.
DueRuleWitness ==
    LET due == GetUpcomingReleases(releases, now, DueHoursAhead, TRUE)
    IN  /\ Len(due) = 2
        /\ due[1].indicator.release_time < due[2].indicator.release_time
        /\ \E id \in DOMAIN releases :
              /\ releases[id].impact_level = "low"
              /\ now < releases[id].release_time
              /\ releases[id].release_time <= now + DueHoursAhead

\* C13: an indicator that is not high-impact is stored by update_release_schedule
\* but never triggers an alert: the trigger of every high_impact briefing (its
\* first indicator) is a high-impact indicator, and no such release is ever
\* marked notified by check_high_impact_releases.
LowImpactNeverAlerts ==
    /\ \A k \in BriefingIds :
          briefings[k].briefing_type = "high_impact"
          => /\ briefings[k].indicators # << >>
             /\ ImpactOf(briefings[k].indicators[1]) = "high"
    /\ trigger["high_impact"] # << >> => trigger["high_impact"][1].impact_level = "high"
    /\ \A id \in DOMAIN releases :
          releases[id].impact_level # "high" => (~releases[id].notified /\ id \notin marked)

\* A check found a high-impact release due and alerted for it while a stored
\* low-impact release was inside the same window.
LowImpactNeverAlertsWitness ==
    /\ marked # {}
    /\ \E k \in BriefingIds :
          /\ briefings[k].briefing_type = "high_impact"
          /\ \E id \in DOMAIN releases :
                /\ releases[id].impact_level = "low"
                /\ briefings[k].created_at < releases[id].release_time
                /\ releases[id].release_time <= briefings[k].created_at + DueHoursAhead

\* C14: mark_release_notified is defined on every id and idempotent: on an id
\* that is not stored it changes no row; on a stored id it sets that row's
\* notified flag and nothing else, and a second call changes nothing more.
MarkNotifiedIdempotent ==
    \A id \in IndicatorIds :
        LET once == MarkReleaseNotified(releases, id)
            twice == MarkReleaseNotified(once, id)
        IN  /\ DOMAIN once = DOMAIN releases
            /\ id \notin DOMAIN releases => once = releases
            /\ id \in DOMAIN releases =>
                  /\ once[id].notified
                  /\ once[id] = [releases[id] EXCEPT !.notified = TRUE]
                  /\ \A other \in DOMAIN releases \ {id} : once[other] = releases[other]
            /\ twice = once

\* A stored release has been marked and is notified, another release is stored
\* and not notified, and some id is not stored at all.
MarkNotifiedIdempotentWitness ==
    /\ \E id \in marked : releases[id].notified
    /\ \E id \in DOMAIN releases : ~releases[id].notified
    /\ IndicatorIds \ DOMAIN releases # {}

\* The attempts logged for briefing k, in the order they were made.
AttemptsOf(k) == SelectSeq(notification_log, LAMBDA e : e.briefing_id = k)

\* C15: in a send_briefing that passes the gate every configured notifier is
\* attempted exactly once, in list order, whatever the earlier ones did; an
\* attempt that raised is logged with success = false and the error text, and
\* the call goes on to the next notifier and to its end.
DispatchIsolated ==
    \A k \in BriefingIds :
        LET attempts == AttemptsOf(k)
        IN  /\ Len(attempts) <= Len(notifiers)
            /\ \A i \in 1..Len(attempts) :
                   /\ attempts[i].channel = notifiers[i]
                   /\ attempts[i].error_message # << >> => ~attempts[i].success
            /\ \A p \in Cycles :
                   briefing[p] = k =>
                      /\ pc[p] = "send" => nidx[p] = Len(attempts) + 1
                      /\ (gate[p] = "passed" /\ pc[p] \in {"mark_sent", "returned"})
                         => Len(attempts) = Len(notifiers)
                      /\ gate[p] # "passed" => Len(attempts) = 0
            /\ (\A p \in Cycles : briefing[p] # k) => Len(attempts) \in {0, Len(notifiers)}

\* The first notifier raised, the second was still attempted and succeeded, and
\* send_briefing returned True.
DispatchIsolatedWitness ==
    \E p \in Cycles :
        /\ pc[p] = "returned" /\ ret[p] = "true"
        /\ Len(AttemptsOf(briefing[p])) = 2
        /\ AttemptsOf(briefing[p])[1].error_message # << >>
        /\ AttemptsOf(briefing[p])[2].success

\* Where the items of source number i start in the returned list.
RECURSIVE OffsetOf(_)
OffsetOf(i) == IF i <= 1 THEN 0 ELSE OffsetOf(i - 1) + Len(source_runs[i - 1].yielded)

\* C16: a source that raises while it is iterated does not abort the fetch: the
\* call does not raise and returns every item every source yielded (a raising
\* source's items up to the failure included), in source order, news items
\* classified.
SourceErrorsIsolated ==
    source_runs # << >> =>
        /\ ~fetch_return.raised
        /\ Len(fetch_return.items) = OffsetOf(Len(source_runs) + 1)
        /\ \A i \in 1..Len(source_runs) : \A j \in 1..Len(source_runs[i].yielded) :
               LET item == source_runs[i].yielded[j]
                   got == fetch_return.items[OffsetOf(i) + j]
               IN  IF fetch_return.call = "news"
                   THEN got.id = item.id /\ got.title = item.title /\ got.sentiment # "unset"
                   ELSE got = item

\* The first source yielded an item and raised; the second source's two items
\* were still returned after it.
SourceErrorsIsolatedWitness ==
    /\ source_runs # << >>
    /\ source_runs[1].raised /\ Len(source_runs[1].yielded) = 1
    /\ ~source_runs[2].raised /\ Len(source_runs[2].yielded) = 2
    /\ Len(fetch_return.items) = 3

\* C17: a store operation failing during a cycle is fatal to the cycle: the
\* error is raised to the cycle's caller and the cycle's briefing, if any, is
\* not marked sent.
PersistenceErrorsFatal ==
    \A p \in Cycles :
        store_error[p] =>
            /\ pc[p] = "raised"
            /\ briefing[p] # 0 => ~briefings[briefing[p]].sent

\* C18: send_briefing returns True exactly when some notifier.send of that call
\* returned True, and False otherwise.
ReturnsTrueIffDelivered ==
    \A p \in Cycles :
        pc[p] = "returned" =>
            /\ ret[p] \in {"true", "false"}
            /\ ret[p] = "true" <=> briefing[p] \in delivered

\* C19: run_daily_briefing returns the generated briefing when send_briefing
\* sent it and None when it did not (gate rejection, or every channel failing).
DailyReturnsSentOrNone ==
    [][(pc["daily"] = "returned" /\ pc'["daily"] = "idle")
       => daily_result' = IF ret["daily"] = "true" THEN briefing["daily"] ELSE 0]_vars

\* C20: a briefing is persisted, with sent = false and nothing dispatched for
\* it, before its cycle consults the gate; from then on its row stays in the
\* table, keeps its content, and its sent flag only goes from false to true.
BriefingLifecycle ==
    [][/\ Len(briefings') >= Len(briefings)
       /\ \A k \in BriefingIds :
             /\ briefings'[k].created_at = briefings[k].created_at
             /\ briefings'[k].content_hash = briefings[k].content_hash
             /\ briefings'[k].briefing_type = briefings[k].briefing_type
             /\ briefings[k].sent => briefings'[k].sent
       /\ \A k \in (1..Len(briefings')) \ BriefingIds :
             /\ ~briefings'[k].sent
             /\ briefings'[k].sent_at = << >>
             /\ \A n \in 1..Len(notification_log') : notification_log'[n].briefing_id # k
             /\ \E p \in Cycles : pc[p] = "gen_save" /\ pc'[p] = "gate_dup" /\ briefing'[p] = k
       /\ \A p \in Cycles :
             pc'[p] \in {"gate_dup", "gate_rate", "send", "mark_sent"}
             => briefing'[p] \in 1..Len(briefings')]_vars

\* A briefing has just been persisted, unsent, and its cycle is about to consult
\* the gate, while an earlier briefing is stored as sent.
BriefingLifecycleWitness ==
    \E p \in Cycles :
        /\ pc[p] = "gate_dup"
        /\ ~briefings[briefing[p]].sent
        /\ \E k \in BriefingIds : k < briefing[p] /\ briefings[k].sent

\* C21: the notification log only grows, by one entry at a time at its end, and
\* every notifier.send call of the dispatch loop adds exactly one entry, which
\* carries the briefing id and the channel of the call and a success flag equal
\* to the call's outcome (true iff send returned True).
LogAppendOnly ==
    [][/\ \/ notification_log' = notification_log
          \/ /\ Len(notification_log') = Len(notification_log) + 1
             /\ SubSeq(notification_log', 1, Len(notification_log)) = notification_log
       /\ send_calls' # send_calls =>
             LET call == send_calls'[Len(send_calls')]
                 entry == notification_log'[Len(notification_log')]
             IN  /\ Len(notification_log') = Len(notification_log) + 1
                 /\ entry.briefing_id = call.briefing_id
                 /\ entry.channel = call.channel
                 /\ entry.success = (call.outcome = "ok")
       /\ send_calls' = send_calls => notification_log' = notification_log]_vars

\* ---- the content fingerprint ------------------------------------------------
\* Text is a sequence of characters.  Item titles over a two-letter alphabet,
\* one of the letters being the colon, which news titles often contain.
Titles == {<<"a">>, <<"a", "a">>, <<"a", ":">>, <<":", "a">>}

\* What _generate_key_points can return: a list of titles, most important first.
KeyPointLists == UNION {[1..n -> Titles] : n \in 0..MaxKeyPoints}

\* ':'.join(key_points)
RECURSIVE Join(_)
Join(key_points) ==
    IF Len(key_points) = 0 THEN << >>
    ELSE IF Len(key_points) = 1 THEN key_points[1]
    ELSE key_points[1] \o <<":">> \o Join(Tail(key_points))

\* hash_content = f"{overall_sentiment.value}:{':'.join(key_points)}".  The
\* sentiment value is one of three words without a colon and is kept as one
\* symbol.  sha256(...).hexdigest() is taken as injective, so the digest is
\* represented by the string it is computed from.
HashContent(overall_sentiment, key_points) ==
    <<overall_sentiment, ":">> \o Join(key_points)

\* generate_briefing from the point where the overall sentiment and the key
\* points are in hand: the briefing gets a fresh id, its type and the
\* fingerprint of its content.
GenerateBriefingCall ==
    /\ Len(fingerprinted) < MaxBriefings
    /\ \E overall_sentiment \in {"bullish", "bearish"}, key_points \in KeyPointLists,
          briefing_type \in {"daily", "high_impact"} :
          fingerprinted' = Append(fingerprinted,
              [id |-> Len(fingerprinted) + 1,
               briefing_type |-> briefing_type,
               overall_sentiment |-> overall_sentiment,
               key_points |-> key_points,
               content_hash |-> HashContent(overall_sentiment, key_points)])
    /\ UNCHANGED <<config, analyzer_args, analyzer, scorer, sentiment_call, news_item,
                   processed, batch, aggregate, directCalls, send_calls, callerView, now, store, pc,
                   genLocals, sendLocals, hiLocals>>

NextFingerprint == GenerateBriefingCall

\* generate_briefing's fingerprinting alone, on every content within the bounds.
SpecFingerprint == InitWith(<<"email">>, << >>) /\ [][NextFingerprint]_vars

\* C22: the fingerprint depends on the overall sentiment and the ordered key
\* points only (briefings equal in both have equal fingerprints, whatever their
\* ids and types), and two briefings whose key-point lists differ have different
\* fingerprints.
FingerprintOfContent ==
    \A i, j \in 1..Len(fingerprinted) :
        LET a == fingerprinted[i]
            b == fingerprinted[j]
        IN  /\ (a.overall_sentiment = b.overall_sentiment /\ a.key_points = b.key_points)
                => a.content_hash = b.content_hash
            /\ a.key_points # b.key_points => a.content_hash # b.content_hash

\* ---- the analyzer: text ------------------------------------------------------
\* A str is the sequence of its characters.  The letters the model's texts use,
\* upper case and lower case in the same order.
UpperLetters == <<"A", "C", "H", "M", "N", "O", "R", "S", "U">>
LowerLetters == <<"a", "c", "h", "m", "n", "o", "r", "s", "u">>

\* str.lower(), character by character.
LowerChar(c) ==
    IF \E i \in 1..Len(UpperLetters) : UpperLetters[i] = c
    THEN LowerLetters[CHOOSE i \in 1..Len(UpperLetters) : UpperLetters[i] = c]
    ELSE c

Lower(text) == [i \in 1..Len(text) |-> LowerChar(text[i])]

\* "keyword in text": the keyword occurs as a substring (the empty one always).
Contains(text, keyword) ==
    \E i \in 0..(Len(text) - Len(keyword)) :
        \A j \in 1..Len(keyword) : text[i + j] = keyword[j]

\* text.count(c) for a single character c.
Count(text, c) == Cardinality({i \in 1..Len(text) : text[i] = c})

\* \w of the regular expression, over the model's characters.
IsUpper(c) == \E i \in 1..Len(UpperLetters) : UpperLetters[i] = c
IsWordChar(c) == IsUpper(c) \/ c \in {"x"} \/ \E i \in 1..Len(LowerLetters) : LowerLetters[i] = c

\* len(re.findall(r"\b[A-Z]{4,}\b", text)): a match starts at a word boundary,
\* takes four or more capitals and must end at a word boundary, so the matches
\* are the words that consist of four or more capitals and nothing else.
CapsMatches(text) ==
    Cardinality({i \in 1..Len(text) :
        /\ IsUpper(text[i])
        /\ i = 1 \/ ~IsWordChar(text[i - 1])
        /\ \E k \in (i + 3)..Len(text) :
              /\ \A j \in i..k : IsUpper(text[j])
              /\ k = Len(text) \/ ~IsWordChar(text[k + 1])})

\* The words and fragments texts are put together from.
Blank == <<" ">>
Xs(n) == [i \in 1..n |-> "x"]
Rumor == <<"r", "u", "m", "o", "r">>
RumorCapital == <<"R", "u", "m", "o", "r">>
Crash == <<"c", "r", "a", "s", "h">>
CrashCapital == <<"C", "r", "a", "s", "h">>
Moon == <<"m", "o", "o", "n">>
MOON == <<"M", "O", "O", "N">>
MOONs == <<"M", "O", "O", "N", "s">>
Bangs(n) == [i \in 1..n |-> "!"]
Queries(n) == [i \in 1..n |-> "?"]

\* ---- binary64 arithmetic ----------------------------------------------------
\* The scores of the program are Python floats (IEEE 754 binary64).  A natural
\* number is a little-endian sequence of NumLimbs limbs below LimbBase, so that
\* every intermediate product stays inside TLC's integers.
LimbBits == 24
LimbBase == 4096 * 4096
NumLimbs == 5

\* 2^k for k up to LimbBits, from a table.
RECURSIVE Doubled(_)
Doubled(k) == IF k = 0 THEN 1 ELSE 2 * Doubled(k - 1)

Powers == [k \in 0..LimbBits |-> Doubled(k)]

Pow2(k) == Powers[k]

NatOf(n) == [i \in 1..NumLimbs |-> IF i = 1 THEN n ELSE 0]

\* x * c for a factor c of at most 7 bits.
NatMulSmall(x, c) ==
    LET p1 == x[1] * c
        p2 == x[2] * c + p1 \div LimbBase
        p3 == x[3] * c + p2 \div LimbBase
        p4 == x[4] * c + p3 \div LimbBase
        p5 == x[5] * c + p4 \div LimbBase
    IN  <<p1 % LimbBase, p2 % LimbBase, p3 % LimbBase, p4 % LimbBase, p5 % LimbBase>>

\* x * 2^k: whole limbs first, then at most 6 bits at a time.
RECURSIVE NatShiftBits(_, _)
NatShiftBits(x, k) ==
    IF k = 0 THEN x
    ELSE IF k >= 6 THEN NatShiftBits(NatMulSmall(x, 64), k - 6)
    ELSE NatMulSmall(x, Pow2(k))

NatShiftLeft(x, k) ==
    LET limbs == k \div LimbBits
    IN  NatShiftBits([i \in 1..NumLimbs |-> IF i > limbs THEN x[i - limbs] ELSE 0],
                     k % LimbBits)

\* x \div 2^k together with the bits dropped, for k >= 1: guard is the highest
\* dropped bit, sticky says that a lower dropped bit is set.
NatShiftRight(x, k) ==
    LET Limb(i) == IF i <= NumLimbs THEN x[i] ELSE 0
        limbs == k \div LimbBits
        low == Pow2(k % LimbBits)
        high == Pow2(LimbBits - (k % LimbBits))
        at == (k - 1) \div LimbBits + 1
        bit == Pow2((k - 1) % LimbBits)
    IN  [quot |-> [i \in 1..NumLimbs |->
                      Limb(i + limbs) \div low + (Limb(i + limbs + 1) % low) * high],
         guard |-> (Limb(at) \div bit) % 2 = 1,
         sticky |-> Limb(at) % bit # 0 \/ \E i \in 1..(at - 1) : Limb(i) # 0]

\* x divided by a small n: quotient and remainder, from the top limb down.
NatDivSmall(x, n) ==
    LET c5 == x[5]
        c4 == (c5 % n) * LimbBase + x[4]
        c3 == (c4 % n) * LimbBase + x[3]
        c2 == (c3 % n) * LimbBase + x[2]
        c1 == (c2 % n) * LimbBase + x[1]
    IN  [quot |-> <<c1 \div n, c2 \div n, c3 \div n, c4 \div n, c5 \div n>>, rem |-> c1 % n]

NatAdd(x, y) ==
    LET s1 == x[1] + y[1]
        s2 == x[2] + y[2] + s1 \div LimbBase
        s3 == x[3] + y[3] + s2 \div LimbBase
        s4 == x[4] + y[4] + s3 \div LimbBase
        s5 == x[5] + y[5] + s4 \div LimbBase
    IN  <<s1 % LimbBase, s2 % LimbBase, s3 % LimbBase, s4 % LimbBase, s5 % LimbBase>>

\* x - y for x >= y.
NatSub(x, y) ==
    LET d1 == x[1] - y[1]
        d2 == x[2] - y[2] - (IF d1 < 0 THEN 1 ELSE 0)
        d3 == x[3] - y[3] - (IF d2 < 0 THEN 1 ELSE 0)
        d4 == x[4] - y[4] - (IF d3 < 0 THEN 1 ELSE 0)
        d5 == x[5] - y[5] - (IF d4 < 0 THEN 1 ELSE 0)
    IN  <<d1 % LimbBase, d2 % LimbBase, d3 % LimbBase, d4 % LimbBase, d5 % LimbBase>>

\* x < y: decided at the highest limb in which they differ.
NatLess(x, y) ==
    \E i \in 1..NumLimbs :
        /\ x[i] < y[i]
        /\ \A j \in (i + 1)..NumLimbs : x[j] = y[j]

\* The number of bits of x > 0.
BitLength(x) ==
    LET top == CHOOSE i \in 1..NumLimbs : x[i] > 0 /\ \A j \in (i + 1)..NumLimbs : x[j] = 0
        bits == CHOOSE b \in 1..LimbBits : Pow2(b - 1) <= x[top] /\ x[top] \div 2 < Pow2(b - 1)
    IN  (top - 1) * LimbBits + bits

\* A finite double is sign, significand and exponent: the value man * 2^exp
\* with 2^52 <= man < 2^53, or zero.  The exponents of the model's values stay
\* far inside the binary64 range, so nothing is subnormal or infinite.
MantissaBits == 53
DoubleZero == [neg |-> FALSE, man |-> NatOf(0), exp |-> 0]
IsZero(d) == d.man = NatOf(0)

\* The double nearest to (x + a fraction) * 2^e, ties to even; inexact says
\* that the fraction is not zero.
RoundToDouble(neg, x, e, inexact) ==
    IF x = NatOf(0) THEN DoubleZero
    ELSE LET excess == BitLength(x) - MantissaBits
         IN  IF excess <= 0
             THEN [neg |-> neg, man |-> NatShiftLeft(x, 0 - excess), exp |-> e + excess]
             ELSE LET s == NatShiftRight(x, excess)
                      up == s.guard /\ (s.sticky \/ inexact \/ s.quot[1] % 2 = 1)
                      m == IF up THEN NatAdd(s.quot, NatOf(1)) ELSE s.quot
                  IN  IF BitLength(m) > MantissaBits
                      THEN [neg |-> neg, man |-> NatShiftRight(m, 1).quot, exp |-> e + excess + 1]
                      ELSE [neg |-> neg, man |-> m, exp |-> e + excess]

\* The double a literal of h hundredths denotes.
DoubleOfHundredths(h) ==
    LET mag == IF h < 0 THEN 0 - h ELSE h
        d == NatDivSmall(NatShiftLeft(NatOf(mag), 64), 100)
    IN  RoundToDouble(h < 0, d.quot, 0 - 64, d.rem # 0)

\* d * c * 2^k for a small c: one rounding.
DoubleMulSmall(d, c, k) == RoundToDouble(d.neg, NatMulSmall(d.man, c), d.exp + k, FALSE)

\* a + b: exact on the common exponent, then one rounding.  An operand whose
\* exponent is more than MantissaBits + 1 below the other's is less than a
\* quarter of the other's last place and leaves it unchanged.
DoubleAdd(a, b) ==
    IF IsZero(a) THEN b
    ELSE IF IsZero(b) THEN a
    ELSE IF a.exp - b.exp > MantissaBits + 1 THEN a
    ELSE IF b.exp - a.exp > MantissaBits + 1 THEN b
    ELSE LET e == IF a.exp < b.exp THEN a.exp ELSE b.exp
             x == NatShiftLeft(a.man, a.exp - e)
             y == NatShiftLeft(b.man, b.exp - e)
         IN  IF a.neg = b.neg THEN RoundToDouble(a.neg, NatAdd(x, y), e, FALSE)
             ELSE IF NatLess(x, y) THEN RoundToDouble(b.neg, NatSub(y, x), e, FALSE)
             ELSE RoundToDouble(a.neg, NatSub(x, y), e, FALSE)

\* a / (n / 2) for a small n: one rounding of the exact quotient.
DoubleDivHalves(a, n) ==
    LET d == NatDivSmall(NatShiftLeft(a.man, 8), n)
    IN  RoundToDouble(a.neg, d.quot, a.exp - 7, d.rem # 0)

\* a < b
DoubleLess(a, b) ==
    LET MagLess(x, y) ==
            IF IsZero(y) THEN FALSE
            ELSE IF IsZero(x) THEN TRUE
            ELSE x.exp < y.exp \/ (x.exp = y.exp /\ NatLess(x.man, y.man))
    IN  IF a.neg /\ ~b.neg THEN TRUE
        ELSE IF ~a.neg /\ b.neg THEN FALSE
        ELSE IF a.neg THEN MagLess(b, a)
        ELSE MagLess(a, b)

\* -d
DoubleNeg(d) == IF IsZero(d) THEN d ELSE [d EXCEPT !.neg = ~d.neg]

\* ---- the analyzer: construction and the three checks ------------------------
\* settings, with the default threshold and, of the default keyword lists, the
\* words the model's texts use.
Settings ==
    [sentiment_threshold |-> SentimentThresholdDefault,
     noise_filter_keywords |-> <<Rumor>>,
     manipulation_keywords |-> <<Crash, Moon>>]

\* What TextBlob(text).sentiment.polarity can be: -1.00 .. 1.00 in hundredths.
Polarities == {-90, -80, -10, -5, 0, 5, 10, 80, 90}

\* sentiment_threshold or settings.sentiment_threshold: None and 0.0 are both
\* falsy and both give the settings' value.
ThresholdOr(sentiment_threshold) ==
    IF sentiment_threshold = << >> \/ sentiment_threshold[1] = 0
    THEN Settings.sentiment_threshold
    ELSE sentiment_threshold[1]

\* A keyword list given to the constructor is kept as it is; without one the
\* settings' list is taken, each entry lower-cased.  (The settings' entries of
\* the model have no blanks around them and none is empty.)
KeywordsOr(keywords, from_settings) ==
    IF keywords # << >> THEN keywords[1]
    ELSE [i \in 1..Len(from_settings) |-> Lower(from_settings[i])]

\* SentimentAnalyzer.__init__; an argument is << >> for None, <<v>> for v.
SentimentAnalyzer(sentiment_threshold, noise_keywords, manipulation_keywords) ==
    [sentiment_threshold |-> ThresholdOr(sentiment_threshold),
     noise_keywords |-> KeywordsOr(noise_keywords, Settings.noise_filter_keywords),
     manipulation_keywords |->
         KeywordsOr(manipulation_keywords, Settings.manipulation_keywords)]

\* The mapping of a score to a class, both being doubles: bullish above the
\* threshold, bearish below its negative, else neutral.
SentimentOf(score, threshold) ==
    IF DoubleLess(threshold, score) THEN "bullish"
    ELSE IF DoubleLess(score, DoubleNeg(threshold)) THEN "bearish"
    ELSE "neutral"

\* The class of a polarity of p hundredths for an analyzer.
ClassOf(a, p) == SentimentOf(DoubleOfHundredths(p), DoubleOfHundredths(a.sentiment_threshold))

\* analyze_sentiment without its first two lines.
AnalyzeSentimentUnguarded(a, polarity_of, text) ==
    <<polarity_of[text], ClassOf(a, polarity_of[text])>>

\* analyze_sentiment: (raw_score, sentiment); the empty text returns before
\* TextBlob is reached.
AnalyzeSentiment(a, polarity_of, text) ==
    IF text = << >> THEN <<0, "neutral">>
    ELSE <<polarity_of[text], ClassOf(a, polarity_of[text])>>

\* f"{item.title} {item.content}"
CombinedText(it) == it.title \o Blank \o it.content

\* is_noise
IsNoise(a, it) ==
    LET combined_text == Lower(CombinedText(it))
    IN  \/ Len(it.content) < MinContentLength
        \/ \E i \in 1..Len(a.noise_keywords) : Contains(combined_text, a.noise_keywords[i])
        \/ Count(combined_text, "!") > MaxPunctuation
        \/ Count(combined_text, "?") > MaxPunctuation

\* manipulation_count: the entries of the list found in the lower-cased text,
\* an entry listed twice counting twice.
ManipulationCount(a, it) ==
    Cardinality({i \in 1..Len(a.manipulation_keywords) :
                    Contains(Lower(CombinedText(it)), a.manipulation_keywords[i])})

\* is_manipulation returns at the keyword rule or at the capitals rule.
ReturnsBeforePolarity(a, it) ==
    \/ ManipulationCount(a, it) >= MinManipulationKeywords
    \/ CapsMatches(CombinedText(it)) > MaxCapsMatches

\* is_manipulation; the polarity is that of the lower-cased text.
IsManipulation(a, polarity_of, it) ==
    \/ ReturnsBeforePolarity(a, it)
    \/ LET polarity == AnalyzeSentiment(a, polarity_of, Lower(CombinedText(it)))[1]
       IN  polarity > ExtremePolarity \/ polarity < 0 - ExtremePolarity

\* The texts process_item hands to TextBlob for this item.
ScoredFor(a, it) ==
    {CombinedText(it)}
    \cup (IF ReturnsBeforePolarity(a, it) THEN {} ELSE {Lower(CombinedText(it))})

\* item.model_copy(update=...) done in place: the argument itself is updated.
ModelCopyInPlace(it, raw_score, sentiment, is_noise, is_manipulation) ==
    LET updated == [it EXCEPT !.raw_sentiment_score = raw_score, !.sentiment = sentiment,
                              !.is_noise = is_noise, !.is_manipulation = is_manipulation]
    IN  [argument |-> updated, returned |-> updated]

\* item.model_copy(update={...}): a new item with the four fields replaced; the
\* argument stays as it was.
ModelCopy(it, raw_score, sentiment, is_noise, is_manipulation) ==
    [argument |-> it,
     returned |-> [it EXCEPT !.raw_sentiment_score = raw_score, !.sentiment = sentiment,
                             !.is_noise = is_noise, !.is_manipulation = is_manipulation]]

\* process_item with the manipulation check skipped for an item that is noise.
ProcessItemShortCircuit(a, polarity_of, it) ==
    LET analysed == AnalyzeSentiment(a, polarity_of, CombinedText(it))
    IN  ModelCopy(it, analysed[1], analysed[2], IsNoise(a, it),
                  ~IsNoise(a, it) /\ IsManipulation(a, polarity_of, it))

\* process_item: the argument after the call and the item returned.
ProcessItemWith(a, polarity_of, it) ==
    LET analysed == AnalyzeSentiment(a, polarity_of, CombinedText(it))
    IN  ModelCopy(it, analysed[1], analysed[2], IsNoise(a, it),
                  IsManipulation(a, polarity_of, it))

\* impact_weights = {"high": 3.0, "medium": 1.5, "low": 1.0}: a weight is
\* factor * 2^shift, and halves counts it in halves, which are exact.
ImpactWeights ==
    [high |-> [factor |-> 3, shift |-> 0, halves |-> 6],
     medium |-> [factor |-> 3, shift |-> 0 - 1, halves |-> 3],
     low |-> [factor |-> 1, shift |-> 0, halves |-> 2]]

\* valid_items, in order.
ValidItems(items) == SelectSeq(items, LAMBDA it : ~it.is_noise /\ ~it.is_manipulation)

\* item.raw_sentiment_score * weight: one rounding.
Weighted(it) ==
    DoubleMulSmall(DoubleOfHundredths(it.raw_sentiment_score),
                   ImpactWeights[it.impact_level].factor,
                   ImpactWeights[it.impact_level].shift)

\* The two sums of the loop over the first n valid_items: weighted_sum is
\* rounded at every addition, total_weight is exact and counted in halves.
RECURSIVE WeightedSum(_, _)
WeightedSum(items, n) ==
    IF n = 0 THEN DoubleZero
    ELSE DoubleAdd(WeightedSum(items, n - 1), Weighted(items[n]))

RECURSIVE TotalWeight(_, _)
TotalWeight(items, n) ==
    IF n = 0 THEN 0
    ELSE TotalWeight(items, n - 1) + ImpactWeights[items[n].impact_level].halves

\* avg_score = weighted_sum / total_weight and its class; total_weight is not 0
\* for a list that is not empty.
AverageOf(a, items) ==
    LET avg_score == DoubleDivHalves(WeightedSum(items, Len(items)),
                                     TotalWeight(items, Len(items)))
    IN  <<avg_score, SentimentOf(avg_score, DoubleOfHundredths(a.sentiment_threshold))>>

\* aggregate_sentiment over every item, the flagged ones included.
AggregateSentimentUnfiltered(a, items) ==
    IF items = << >> THEN <<DoubleZero, "neutral">>
    ELSE AverageOf(a, items)

\* aggregate_sentiment: (avg_score, overall sentiment).
AggregateSentiment(a, items) ==
    LET valid_items == ValidItems(items)
    IN  IF valid_items = << >> THEN <<DoubleZero, "neutral">>
        ELSE AverageOf(a, valid_items)

\* ---- the analyzer called directly --------------------------------------------
\* The constructor arguments drawn: None or a value.
ThresholdArgs == {<< >>, <<0>>, <<5>>, <<10>>, <<80>>}
NoiseKeywordArgs == {<< >>, <<(<<RumorCapital>>)>>}
ManipulationKeywordArgs ==
    {<< >>, <<(<<Crash, Moon>>)>>, <<(<<CrashCapital, Moon>>)>>, <<(<<Crash, Crash>>)>>}

\* analyzer = SentimentAnalyzer(...)
NewSentimentAnalyzerCall(thresholds, noise_args, manipulation_args) ==
    /\ analyzer = << >>
    /\ \E sentiment_threshold \in thresholds, noise_keywords \in noise_args,
          manipulation_keywords \in manipulation_args :
          /\ analyzer_args' = <<[sentiment_threshold |-> sentiment_threshold,
                                 noise_keywords |-> noise_keywords,
                                 manipulation_keywords |-> manipulation_keywords]>>
          /\ analyzer' = <<SentimentAnalyzer(sentiment_threshold, noise_keywords,
                                             manipulation_keywords)>>
    /\ UNCHANGED <<config, fingerprinted, scorer, sentiment_call, news_item, processed,
                   batch, aggregate, directCalls, send_calls, callerView, now, store, pc, genLocals,
                   sendLocals, hiLocals>>

\* TextBlob on texts it has not scored yet: some polarity each, and the same
\* polarity whenever the text is scored again.
ScorerOn(texts, polarities) ==
    {fresh @@ scorer : fresh \in [texts \ DOMAIN scorer -> polarities]}

\* The texts analyze_sentiment is called with.
SentimentTexts == {<< >>, Rumor, MOON}

\* The texts analyze_sentiment hands to TextBlob: "if not text: return" comes
\* before "TextBlob(text)".
TextBlobInput(text) == IF text = << >> THEN {} ELSE {text}

\* analyzer.analyze_sentiment(text).  polarity_of is what TextBlob answers for
\* the text; the scorer keeps the answers it was asked for.  Texts to score are
\* given to an analyzer that has not been given items or batches.
AnalyzeSentimentCall ==
    /\ analyzer # << >>
    /\ batch = << >>
    /\ \E text \in SentimentTexts :
       \E polarity_of \in ScorerOn({text}, Polarities) :
          /\ text = << >> \/ news_item = << >>
          /\ scorer' = [t \in DOMAIN scorer \cup TextBlobInput(text) |-> polarity_of[t]]
          /\ sentiment_call' =
                <<[text |-> text, returned |-> AnalyzeSentiment(analyzer[1], polarity_of, text)]>>
    /\ UNCHANGED <<config, fingerprinted, analyzer_args, analyzer, news_item, processed,
                   batch, aggregate, directCalls, send_calls, callerView, now, store, pc, genLocals,
                   sendLocals, hiLocals>>

\* Processed items as aggregate_sentiment receives them: unflagged ones of
\* every impact level and score, and high-impact ones carrying either flag or
\* both.
BatchScores == {-30, -10, 10, 30}
BatchItems ==
    [impact_level : {"high", "medium", "low"}, raw_sentiment_score : BatchScores,
     is_noise : {FALSE}, is_manipulation : {FALSE}]
    \cup {it \in [impact_level : {"high"}, raw_sentiment_score : {-30, 30},
                  is_noise : BOOLEAN, is_manipulation : BOOLEAN] :
             it.is_noise \/ it.is_manipulation}

\* analyzer.aggregate_sentiment(items), once for an analyzer that was given no
\* text.
AggregateSentimentCall ==
    /\ analyzer # << >>
    /\ sentiment_call = << >>
    /\ batch = << >>
    /\ \E items \in UNION {[1..n -> BatchItems] : n \in 0..MaxBatch} :
          /\ batch' = <<items>>
          /\ aggregate' = <<AggregateSentiment(analyzer[1], items)>>
    /\ UNCHANGED <<config, fingerprinted, analyzer_args, analyzer, scorer, sentiment_call,
                   news_item, processed, directCalls, send_calls, callerView, now, store, pc, genLocals,
                   sendLocals, hiLocals>>

NextSentiment ==
    \/ NewSentimentAnalyzerCall(ThresholdArgs, {<< >>}, {<< >>})
    \/ AnalyzeSentimentCall
    \/ AggregateSentimentCall

\* An analyzer built with any of the thresholds, then given texts or batches.
SpecSentiment == InitWith(<<"email">>, << >>) /\ [][NextSentiment]_vars

\* C23: with a threshold t >= 0 given to the constructor, analyze_sentiment
\* classifies the polarity p of a non-empty text, and aggregate_sentiment the
\* score p it returns for a non-empty retained batch, as bullish iff p > t,
\* bearish iff p < -t and neutral otherwise.
ThresholdMapping ==
    (analyzer_args # << >> /\ analyzer_args[1].sentiment_threshold # << >>) =>
        LET t == DoubleOfHundredths(analyzer_args[1].sentiment_threshold[1])
            Class(p) == IF DoubleLess(t, p) THEN "bullish"
                        ELSE IF DoubleLess(p, DoubleNeg(t)) THEN "bearish"
                        ELSE "neutral"
        IN  /\ (sentiment_call # << >> /\ sentiment_call[1].text # << >>) =>
                  sentiment_call[1].returned[2] =
                      Class(DoubleOfHundredths(sentiment_call[1].returned[1]))
            /\ (aggregate # << >> /\ ValidItems(batch[1]) # << >>) =>
                  aggregate[1][2] = Class(aggregate[1][1])

\* ---- process_item called directly --------------------------------------------
\* A NewsItem as a source builds it: the analyzer's outputs at their defaults.
UnprocessedItem(title, content) ==
    [title |-> title, content |-> content, impact_level |-> "medium",
     raw_sentiment_score |-> 0, sentiment |-> "neutral",
     is_noise |-> FALSE, is_manipulation |-> FALSE]

ItemTitles == {Bangs(1), Moon}

\* Bodies: empty, one character short of the minimum, of the minimum length,
\* and of the minimum length followed by words or punctuation.
ItemContents ==
    {<< >>, Xs(49), Xs(50), Crash \o Blank \o Moon}
    \cup {Xs(50) \o Blank \o tail : tail \in
            {Rumor, RumorCapital, Crash \o Blank \o Moon, CrashCapital,
             MOON \o Blank \o MOON, MOON \o Blank \o MOON \o Blank \o MOON,
             MOONs \o Blank \o MOONs \o Blank \o MOONs,
             Bangs(3), Bangs(4), Queries(4)}}

\* The polarities TextBlob gives the items' texts: on, inside and beyond the
\* limit of the extreme-sentiment rule.
ItemPolarities == {-90, -80, 0, 80, 90}

Items == {UnprocessedItem(title, content) : title \in ItemTitles, content \in ItemContents}

\* analyzer.process_item(item) on a fresh item, or once more on the same one.
ProcessItemCall ==
    /\ analyzer # << >>
    /\ sentiment_call = << >>
    /\ \E it \in (IF news_item = << >> THEN Items ELSE {news_item[1]}) :
       \E polarity_of \in ScorerOn(ScoredFor(analyzer[1], it), ItemPolarities) :
          LET call == ProcessItemWith(analyzer[1], polarity_of, it)
          IN  /\ scorer' = polarity_of
              /\ news_item' = <<call.argument>>
              /\ processed' = <<call.returned>>
    /\ UNCHANGED <<config, fingerprinted, analyzer_args, analyzer, sentiment_call, batch,
                   aggregate, directCalls, send_calls, callerView, now, store, pc, genLocals,
                   sendLocals, hiLocals>>

\* analyzer.process_item(processed): the item returned goes through again.
ReprocessItemCall ==
    /\ analyzer # << >>
    /\ sentiment_call = << >>
    /\ processed # << >>
    /\ \E polarity_of \in ScorerOn(ScoredFor(analyzer[1], processed[1]), ItemPolarities) :
          LET call == ProcessItemWith(analyzer[1], polarity_of, processed[1])
          IN  /\ scorer' = polarity_of
              /\ news_item' = <<call.argument>>
              /\ processed' = <<call.returned>>
    /\ UNCHANGED <<config, fingerprinted, analyzer_args, analyzer, sentiment_call, batch,
                   aggregate, directCalls, send_calls, callerView, now, store, pc, genLocals,
                   sendLocals, hiLocals>>

NextAnalyzer ==
    \/ NewSentimentAnalyzerCall({<< >>}, NoiseKeywordArgs, ManipulationKeywordArgs)
    \/ ProcessItemCall
    \/ ReprocessItemCall
    \/ AnalyzeSentimentCall

\* An analyzer built with any of the keyword lists, then given an item.
SpecAnalyzer == InitWith(<<"email">>, << >>) /\ [][NextAnalyzer]_vars

\* The keyword lists the analyzer was configured with: the constructor's, or
\* the settings' when the constructor got none.
ConfiguredNoiseKeywords ==
    IF analyzer_args[1].noise_keywords # << >> THEN analyzer_args[1].noise_keywords[1]
    ELSE Settings.noise_filter_keywords

ConfiguredManipulationKeywords ==
    IF analyzer_args[1].manipulation_keywords # << >>
    THEN analyzer_args[1].manipulation_keywords[1]
    ELSE Settings.manipulation_keywords

\* C24: the noise flag process_item sets is true exactly when the body has
\* fewer than 50 characters, or title and body contain a configured noise
\* keyword whatever the case of the letters on either side, or they contain
\* more than 3 '!' or more than 3 '?'.
NoisePolicy ==
    processed # << >> =>
        LET it == news_item[1]
            text == CombinedText(it)
        IN  processed[1].is_noise <=>
               \/ Len(it.content) < MinContentLength
               \/ \E i \in 1..Len(ConfiguredNoiseKeywords) :
                     Contains(Lower(text), Lower(ConfiguredNoiseKeywords[i]))
               \/ Count(text, "!") > MaxPunctuation
               \/ Count(text, "?") > MaxPunctuation

\* The runs of four or more capitals in a row, as the number of places where a
\* maximal run of capitals of that length starts.
CapitalRuns(text) ==
    Cardinality({i \in 1..Len(text) :
        /\ IsUpper(text[i])
        /\ i = 1 \/ ~IsUpper(text[i - 1])
        /\ i + 3 <= Len(text)
        /\ \A j \in i..(i + 3) : IsUpper(text[j])})

\* C25: the manipulation flag process_item sets is true exactly when two or
\* more distinct configured manipulation keywords occur in title and body, or
\* more than 2 runs of 4 or more capitals occur there, or the polarity of the
\* combined text is above 0.8 or below -0.8; an item with two configured
\* keywords is always flagged.
ManipulationPolicy ==
    processed # << >> =>
        LET it == news_item[1]
            text == CombinedText(it)
            found == {kw \in Range(ConfiguredManipulationKeywords) :
                         Contains(Lower(text), Lower(kw))}
            polarity == scorer[Lower(text)]
        IN  processed[1].is_manipulation <=>
               \/ Cardinality(found) >= MinManipulationKeywords
               \/ CapitalRuns(text) > MaxCapsMatches
               \/ /\ Lower(text) \in DOMAIN scorer
                  /\ polarity > ExtremePolarity \/ polarity < 0 - ExtremePolarity

\* C26: the two flags of the item process_item returns are each what its own
\* check says of the argument: is_manipulation is is_manipulation(item) also
\* for an item that is noise, is_noise is is_noise(item) also for an item that
\* is manipulation.
FlagsIndependent ==
    processed # << >> =>
        /\ processed[1].is_noise = IsNoise(analyzer[1], news_item[1])
        /\ processed[1].is_manipulation = IsManipulation(analyzer[1], scorer, news_item[1])

\* An item came back with both flags set.
FlagsIndependentWitness ==
    /\ processed # << >>
    /\ processed[1].is_noise
    /\ processed[1].is_manipulation

\* The four fields process_item sets.
OutputsOf(it) == <<it.raw_sentiment_score, it.sentiment, it.is_noise, it.is_manipulation>>

\* C27: every call of process_item leaves its argument as it was (a fresh item
\* keeps its default outputs, title and content stay), a second call on the
\* same item returns the same four outputs, and so does a call on the item the
\* first call returned.
ProcessItemStable ==
    [][processed' # << >> =>
          /\ news_item = << >> => news_item'[1] \in Items
          /\ news_item # << >> =>
                /\ news_item'[1] \in {news_item[1], processed[1]}
                /\ OutputsOf(processed'[1]) = OutputsOf(processed[1])
                /\ processed'[1].title = news_item[1].title
                /\ processed'[1].content = news_item[1].content]_vars

\* A processed item, flagged and scored, has gone through process_item again.
ProcessItemStableWitness ==
    /\ processed # << >>
    /\ news_item[1] = processed[1]
    /\ processed[1].is_manipulation
    /\ processed[1].raw_sentiment_score # 0

\* C28: analyze_sentiment of the empty text returns (0.0, neutral), TextBlob is
\* never given the empty text, and an item with an empty body comes back from
\* process_item flagged as noise.
EmptyTextNeutral ==
    /\ (sentiment_call # << >> /\ sentiment_call[1].text = << >>) =>
          sentiment_call[1].returned = <<0, "neutral">>
    /\ << >> \notin DOMAIN scorer
    /\ (processed # << >> /\ news_item[1].content = << >>) => processed[1].is_noise

\* An item with an empty body has been processed (TextBlob scored its title and
\* blank) and analyze_sentiment was then called with the empty text.
EmptyTextNeutralWitness ==
    /\ processed # << >>
    /\ news_item[1].content = << >>
    /\ processed[1].raw_sentiment_score # 0
    /\ sentiment_call # << >>
    /\ sentiment_call[1].text = << >>

\* C29: aggregate_sentiment returns for a batch what it returns for the batch
\* without the items flagged noise or manipulation, and (0.0, neutral) when no
\* item is left: for the empty batch and for a batch of flagged items only.
AggregateIgnoresFlagged ==
    aggregate # << >> =>
        LET kept == SelectSeq(batch[1], LAMBDA it : it.is_noise = FALSE /\ it.is_manipulation = FALSE)
        IN  /\ kept = << >> => aggregate[1] = <<DoubleZero, "neutral">>
            /\ kept # << >> => aggregate[1] = AverageOf(analyzer[1], kept)

\* A batch of one retained bullish item and one bearish noise item came out
\* bullish.
AggregateIgnoresFlaggedWitness ==
    /\ aggregate # << >>
    /\ Len(batch[1]) = 2
    /\ ~batch[1][1].is_noise /\ ~batch[1][1].is_manipulation
    /\ batch[1][1].raw_sentiment_score = 30
    /\ batch[1][2].is_noise
    /\ batch[1][2].raw_sentiment_score = -30
    /\ batch[1][2].impact_level = "high"
    /\ aggregate[1][2] = "bullish"

\* C30: for the retained items aggregate_sentiment returns the mean weighted
\* 3.0 (high), 1.5 (medium), 1.0 (low): the score is not below the least and
\* not above the greatest retained score, and one high-impact item at +s with
\* one low-impact item at -s, s > 0, gives a score above zero.
ImpactWeighting ==
    (aggregate # << >> /\ ValidItems(batch[1]) # << >>) =>
        LET kept == ValidItems(batch[1])
            avg_score == aggregate[1][1]
            score(i) == DoubleOfHundredths(kept[i].raw_sentiment_score)
        IN  /\ \E i \in 1..Len(kept) : ~DoubleLess(avg_score, score(i))
            /\ \E i \in 1..Len(kept) : ~DoubleLess(score(i), avg_score)
            /\ ( /\ Len(kept) = 2
                 /\ \E i, j \in 1..2 :
                       /\ kept[i].impact_level = "high"
                       /\ kept[j].impact_level = "low"
                       /\ kept[i].raw_sentiment_score > 0
                       /\ kept[j].raw_sentiment_score = 0 - kept[i].raw_sentiment_score )
                => DoubleLess(DoubleZero, avg_score)

\* ---- _generate_key_points called directly ----------------------------------
\* {"high": 0, "medium": 1, "low": 2}
ImpactRank == [high |-> 0, medium |-> 1, low |-> 2]

\* The sort key with the publication time not negated: oldest first.
KeyLessOldestFirst(x, y) ==
    \/ ImpactRank[x.impact_level] < ImpactRank[y.impact_level]
    \/ /\ ImpactRank[x.impact_level] = ImpactRank[y.impact_level]
       /\ x.published_at < y.published_at

\* key(x) < key(y) for key = (rank of the impact level, -published_at.timestamp());
\* tuples compare by their first entries, then by their second.  The timestamp
\* grows with the publication time.
KeyLess(x, y) ==
    \/ ImpactRank[x.impact_level] < ImpactRank[y.impact_level]
    \/ /\ ImpactRank[x.impact_level] = ImpactRank[y.impact_level]
       /\ 0 - x.published_at < 0 - y.published_at

\* list.sort(key=...) is stable: an item goes behind every item whose key is
\* not greater than its own.
RECURSIVE InsertByKey(_, _)
InsertByKey(sorted, x) ==
    IF sorted = << >> THEN <<x>>
    ELSE IF KeyLess(x, sorted[Len(sorted)])
    THEN Append(InsertByKey(SubSeq(sorted, 1, Len(sorted) - 1), x), sorted[Len(sorted)])
    ELSE Append(sorted, x)

RECURSIVE SortByKey(_)
SortByKey(items) ==
    IF items = << >> THEN << >>
    ELSE InsertByKey(SortByKey(SubSeq(items, 1, Len(items) - 1)), items[Len(items)])

\* item.title[:100] + "..." if len(item.title) > 100 else item.title
TruncatedTitle(title) ==
    IF Len(title) > TitleLimit THEN SubSeq(title, 1, TitleLimit) \o <<".", ".", ".">>
    ELSE title

\* _generate_key_points
GenerateKeyPoints(news_items) ==
    LET valid_items == SelectSeq(news_items, LAMBDA it : ~it.is_noise /\ ~it.is_manipulation)
        sorted == SortByKey(valid_items)
        top == SubSeq(sorted, 1, IF Len(sorted) < KeyPointsLimit THEN Len(sorted)
                                 ELSE KeyPointsLimit)
    IN  [k \in 1..Len(top) |-> TruncatedTitle(top[k].title)]

\* The processed items a cycle may have fetched: six unflagged ones, two of each
\* impact level published at different times, with titles of 1, 100 and 101
\* characters, and two flagged ones that would come first if they counted.
ProcessedNews(title, impact_level, published_at, is_noise, is_manipulation) ==
    [title |-> title, impact_level |-> impact_level, published_at |-> published_at,
     is_noise |-> is_noise, is_manipulation |-> is_manipulation]

NewsPool ==
    {ProcessedNews(<<"a">>, "high", 1, FALSE, FALSE),
     ProcessedNews(Xs(TitleLimit + 1), "high", 2, FALSE, FALSE),
     ProcessedNews(Xs(TitleLimit), "medium", 1, FALSE, FALSE),
     ProcessedNews(<<"b">>, "medium", 2, FALSE, FALSE),
     ProcessedNews(<<"c">>, "low", 1, FALSE, FALSE),
     ProcessedNews(<<"d">>, "low", 2, FALSE, FALSE),
     ProcessedNews(<<"e">>, "high", 3, TRUE, FALSE),
     ProcessedNews(<<"f">>, "high", 3, FALSE, TRUE)}

\* One more item of the pool is in the list the method will be given.
NewsItemArrives ==
    /\ key_points_call.returned = << >>
    /\ Len(key_points_call.news_items) < MaxNews
    /\ \E it \in NewsPool \ Range(key_points_call.news_items) :
          key_points_call' =
              [key_points_call EXCEPT !.news_items = Append(key_points_call.news_items, it)]
    /\ UNCHANGED <<config, fingerprinted, analyzer_args, analyzer, scorer, sentiment_call,
                   news_item, processed, batch, aggregate, briefing_table, schedule_call, compose_call, alert_call, lifecycle, send_calls,
                   callerView, now, store, pc, genLocals, sendLocals, hiLocals>>

\* self._generate_key_points(news_items) is called and returns.
GenerateKeyPointsCall ==
    /\ key_points_call.returned = << >>
    /\ key_points_call' =
          [key_points_call EXCEPT !.returned = <<GenerateKeyPoints(key_points_call.news_items)>>]
    /\ UNCHANGED <<config, fingerprinted, analyzer_args, analyzer, scorer, sentiment_call,
                   news_item, processed, batch, aggregate, briefing_table, schedule_call, compose_call, alert_call, lifecycle, send_calls,
                   callerView, now, store, pc, genLocals, sendLocals, hiLocals>>

NextKeyPoints == NewsItemArrives \/ GenerateKeyPointsCall

\* _generate_key_points on every list of distinct items of the pool.
SpecKeyPoints == InitWith(<<"email">>, << >>) /\ [][NextKeyPoints]_vars

\* C31: _generate_key_points returns at most 5 strings, one for each of the
\* first 5 unflagged items in the order high before medium before low impact
\* and, within an impact level, newest first (flagged items give none); each
\* is the item's title if that has at most 100 characters, else its first 100
\* characters followed by "...".
KeyPointExtraction ==
    key_points_call.returned # << >> =>
        LET items == key_points_call.news_items
            key_points == key_points_call.returned[1]
            unflagged == {i \in 1..Len(items) :
                            items[i].is_noise = FALSE /\ items[i].is_manipulation = FALSE}
            Level(i) == CHOOSE n \in 1..3 : <<"high", "medium", "low">>[n] = items[i].impact_level
            Before(i, j) == \/ Level(i) < Level(j)
                            \/ Level(i) = Level(j) /\ items[i].published_at > items[j].published_at
            Place(i) == 1 + Cardinality({j \in unflagged : Before(j, i)})
            Shown(title) == IF Len(title) <= 100 THEN title
                            ELSE [k \in 1..103 |-> IF k <= 100 THEN title[k] ELSE "."]
        IN  /\ Len(key_points) <= 5
            /\ Len(key_points) = Cardinality({i \in unflagged : Place(i) <= 5})
            /\ \A i \in unflagged :
                  Place(i) <= 5 => key_points[Place(i)] = Shown(items[i].title)

\* The method was given a noise item first, then the six unflagged items with
\* the older high-impact one last: five key points came back, the older
\* high-impact title second, the 101-character title cut and the 100-character
\* title whole.
KeyPointExtractionWitness ==
    /\ key_points_call.returned # << >>
    /\ Len(key_points_call.news_items) = 7
    /\ key_points_call.news_items[1].is_noise
    /\ key_points_call.news_items[7].title = <<"a">>
    /\ Len(key_points_call.returned[1]) = KeyPointsLimit
    /\ key_points_call.returned[1][1] = Xs(TitleLimit) \o <<".", ".", ".">>
    /\ key_points_call.returned[1][2] = <<"a">>
    /\ key_points_call.returned[1][4] = Xs(TitleLimit)

\* ---- BriefingStorage.save_briefing / get_briefing --------------------------
\* Texts are sequences of characters.  save_briefing writes the columns of
\* the row and, in full_data, the briefing's JSON document; get_briefing
\* parses full_data of the row with the id it is asked for.

Quote == "\""
Backslash == "\\"

\* The characters of a JSON string literal's body: quote and backslash escaped.
RECURSIVE JsonEscaped(_)
JsonEscaped(s) ==
    IF s = << >> THEN << >>
    ELSE (IF Head(s) \in {Quote, Backslash} THEN <<Backslash, Head(s)>> ELSE <<Head(s)>>)
         \o JsonEscaped(Tail(s))

JsonString(s) == <<Quote>> \o JsonEscaped(s) \o <<Quote>>

\* The texts of a list joined by a separator.
RECURSIVE JoinedBy(_, _)
JoinedBy(texts, separator) ==
    IF texts = << >> THEN << >>
    ELSE IF Len(texts) = 1 THEN texts[1]
    ELSE texts[1] \o separator \o JoinedBy(Tail(texts), separator)

\* A JSON array of strings.
JsonArray(list, separator) ==
    <<"[">> \o JoinedBy([k \in 1..Len(list) |-> JsonString(list[k])], separator) \o <<"]">>

\* json.dumps(briefing.key_points): items separated by ", ".
JsonDumps(list) == JsonArray(list, <<",", " ">>)

\* Sentiment.value and the member that has a given value.
SentimentValue ==
    [bullish |-> <<"b", "u", "l", "l", "i", "s", "h">>,
     bearish |-> <<"b", "e", "a", "r", "i", "s", "h">>,
     neutral |-> <<"n", "e", "u", "t", "r", "a", "l">>]

SentimentOfValue(value) == CHOOSE m \in DOMAIN SentimentValue : SentimentValue[m] = value

\* datetime.isoformat() and datetime.fromisoformat() on the model's clock.
Digits == <<"0", "1", "2", "3", "4", "5", "6", "7", "8", "9">>
IsoFormat(t) == <<Digits[t + 1]>>
FromIsoFormat(text) == (CHOOSE k \in 1..Len(Digits) : Digits[k] = text[1]) - 1

\* The literals of a JSON document.
JsonLiteral ==
    [true |-> <<"t", "r", "u", "e">>, false |-> <<"f", "a", "l", "s", "e">>,
     null |-> <<"n", "u", "l", "l">>]

\* The member names of the briefing's JSON document, by field.
MemberName ==
    [id |->
         <<"i", "d">>,
     created_at |->
         <<"c", "r", "e", "a", "t", "e", "d", "_", "a", "t">>,
     briefing_type |->
         <<"b", "r", "i", "e", "f", "i", "n", "g", "_", "t", "y", "p", "e">>,
     title |->
         <<"t", "i", "t", "l", "e">>,
     summary |->
         <<"s", "u", "m", "m", "a", "r", "y">>,
     overall_sentiment |->
         <<"o", "v", "e", "r", "a", "l", "l", "_", "s", "e", "n", "t", "i", "m", "e", "n", "t">>,
     key_points |->
         <<"k", "e", "y", "_", "p", "o", "i", "n", "t", "s">>,
     news_items |->
         <<"n", "e", "w", "s", "_", "i", "t", "e", "m", "s">>,
     indicators |->
         <<"i", "n", "d", "i", "c", "a", "t", "o", "r", "s">>,
     content_hash |->
         <<"c", "o", "n", "t", "e", "n", "t", "_", "h", "a", "s", "h">>,
     sent |->
         <<"s", "e", "n", "t">>,
     sent_at |->
         <<"s", "e", "n", "t", "_", "a", "t">>]

JsonMember(key, value) == JsonString(key) \o <<":">> \o value

\* briefing.model_dump_json(): the document, members in field order.
ModelDumpJson(b) ==
    <<"{">> \o
    JoinedBy(<<JsonMember(MemberName.id, JsonString(b.id)),
               JsonMember(MemberName.created_at, JsonString(IsoFormat(b.created_at))),
               JsonMember(MemberName.briefing_type, JsonString(b.briefing_type)),
               JsonMember(MemberName.title, JsonString(b.title)),
               JsonMember(MemberName.summary, JsonString(b.summary)),
               JsonMember(MemberName.overall_sentiment, JsonString(SentimentValue[b.overall_sentiment])),
               JsonMember(MemberName.key_points, JsonArray(b.key_points, <<",">>)),
               JsonMember(MemberName.news_items, JsonArray(b.news_items, <<",">>)),
               JsonMember(MemberName.indicators, JsonArray(b.indicators, <<",">>)),
               JsonMember(MemberName.content_hash, JsonString(b.content_hash)),
               JsonMember(MemberName.sent, IF b.sent THEN JsonLiteral.true ELSE JsonLiteral.false),
               JsonMember(MemberName.sent_at, IF b.sent_at = << >> THEN JsonLiteral.null
                                     ELSE JsonString(IsoFormat(b.sent_at[1])))>>,
             <<",">>) \o
    <<"}">>

\* The body of the string literal of text t that starts at i, and the index
\* after its closing quote.
RECURSIVE ScanString(_, _, _)
ScanString(t, i, acc) ==
    IF t[i] = Quote THEN <<acc, i + 1>>
    ELSE IF t[i] = Backslash THEN ScanString(t, i + 2, Append(acc, t[i + 1]))
    ELSE ScanString(t, i + 1, Append(acc, t[i]))

ParseString(t, i) == ScanString(t, i + 1, << >>)

\* The remaining elements of an array of strings, from the element at i.
RECURSIVE ScanArray(_, _, _)
ScanArray(t, i, acc) ==
    LET element == ParseString(t, i)
    IN  IF t[element[2]] = "," THEN ScanArray(t, element[2] + 1, Append(acc, element[1]))
        ELSE <<Append(acc, element[1]), element[2] + 1>>

ParseArray(t, i) == IF t[i + 1] = "]" THEN <<<< >>, i + 2>> ELSE ScanArray(t, i + 1, << >>)

\* true, false or null: the characters up to the next "," or "}".
RECURSIVE ScanLiteral(_, _, _)
ScanLiteral(t, i, acc) ==
    IF t[i] \in {",", "}"} THEN <<acc, i>> ELSE ScanLiteral(t, i + 1, Append(acc, t[i]))

ParseValue(t, i) ==
    IF t[i] = Quote THEN ParseString(t, i)
    ELSE IF t[i] = "[" THEN ParseArray(t, i)
    ELSE ScanLiteral(t, i, << >>)

\* The members of an object, from the member whose name starts at i.
RECURSIVE ScanObject(_, _, _)
ScanObject(t, i, acc) ==
    LET key == ParseString(t, i)
        value == ParseValue(t, key[2] + 1)
        members == Append(acc, <<key[1], value[1]>>)
    IN  IF t[value[2]] = "," THEN ScanObject(t, value[2] + 1, members) ELSE members

MemberOf(members, key) == members[CHOOSE k \in 1..Len(members) : members[k][1] = key][2]

\* SentimentBriefing.model_validate_json(text).
ModelValidateJson(text) ==
    LET members == ScanObject(text, 2, << >>)
    IN  [id |-> MemberOf(members, MemberName.id),
         created_at |-> FromIsoFormat(MemberOf(members, MemberName.created_at)),
         briefing_type |-> MemberOf(members, MemberName.briefing_type),
         title |-> MemberOf(members, MemberName.title),
         summary |-> MemberOf(members, MemberName.summary),
         overall_sentiment |-> SentimentOfValue(MemberOf(members, MemberName.overall_sentiment)),
         key_points |-> MemberOf(members, MemberName.key_points),
         news_items |-> MemberOf(members, MemberName.news_items),
         indicators |-> MemberOf(members, MemberName.indicators),
         content_hash |-> MemberOf(members, MemberName.content_hash),
         sent |-> MemberOf(members, MemberName.sent) = JsonLiteral.true,
         sent_at |-> IF MemberOf(members, MemberName.sent_at) = JsonLiteral.null THEN << >>
                     ELSE <<FromIsoFormat(MemberOf(members, MemberName.sent_at))>>]

\* The row save_briefing writes for a briefing.
BriefingRow(b) ==
    [id |-> b.id,
     created_at |-> IsoFormat(b.created_at),
     briefing_type |-> b.briefing_type,
     title |-> b.title,
     summary |-> b.summary,
     overall_sentiment |-> SentimentValue[b.overall_sentiment],
     key_points |-> JsonDumps(b.key_points),
     content_hash |-> b.content_hash,
     sent |-> IF b.sent THEN 1 ELSE 0,
     sent_at |-> IF b.sent_at = << >> THEN << >> ELSE <<IsoFormat(b.sent_at[1])>>,
     full_data |-> ModelDumpJson(b)]

\* INSERT OR IGNORE: a row whose id is already in the table stays as it is.
InsertOrIgnore(rows, row) ==
    [id \in DOMAIN rows \cup {row.id} |-> IF id \in DOMAIN rows THEN rows[id] ELSE row]

\* INSERT OR REPLACE on the primary key id.
InsertOrReplace(rows, row) ==
    [id \in DOMAIN rows \cup {row.id} |-> IF id = row.id THEN row ELSE rows[id]]

\* get_briefing: the parsed full_data of the row with that id, << >> for None.
GetBriefing(rows, briefing_id) ==
    IF briefing_id \in DOMAIN rows THEN <<ModelValidateJson(rows[briefing_id].full_data)>>
    ELSE << >>

\* A briefing as the storage tests build it: the fields given, the rest at
\* their defaults.
SampleBriefing(id, title, overall_sentiment, key_points, content_hash) ==
    [id |-> id, created_at |-> 1, briefing_type |-> <<"d", "a", "i", "l", "y">>,
     title |-> title, summary |-> <<"s", ".">>, overall_sentiment |-> overall_sentiment,
     key_points |-> key_points, news_items |-> << >>, indicators |-> << >>,
     content_hash |-> content_hash, sent |-> FALSE, sent_at |-> << >>]

SavedIds == {<<"b", "1">>, <<"b", "2">>}
NonexistentId == <<"n", "o", "n", "e">>
\* The sample briefings: under either id, a title with quotes or with a
\* backslash and a comma, one of two sentiments, no key point, one, or two in
\* either order (holding quotes, a comma, a bracket, a backslash), one of two
\* hashes.
SampleBriefings ==
    LET titles == {<<Quote, "T", Quote>>, <<Backslash, "n", ",">>}
        points == {<<"a", Quote, ",", Quote, "b">>, <<"]", Backslash>>}
        lists == {<< >>} \cup {<<point>> : point \in points}
                         \cup {pair \in points \X points : pair[1] # pair[2]}
        hashes == {<<"a", "b", "c">>, <<"1", "2", "3">>}
    IN  {SampleBriefing(id, title, overall_sentiment, key_points, content_hash) :
            id \in SavedIds, title \in titles, overall_sentiment \in {"bullish", "neutral"},
            key_points \in lists, content_hash \in hashes}

\* await storage.save_briefing(b), committed, before the table is read.
SaveBriefingCall ==
    /\ briefing_table.got = << >>
    /\ \E b \in SampleBriefings :
          briefing_table' =
              [rows |-> InsertOrReplace(briefing_table.rows, BriefingRow(b)),
               saved |-> [id \in DOMAIN briefing_table.saved \cup {b.id} |->
                             IF id = b.id THEN b ELSE briefing_table.saved[id]],
               got |-> << >>]
    /\ UNCHANGED <<config, fingerprinted, analyzer_args, analyzer, scorer, sentiment_call,
                   news_item, processed, batch, aggregate, key_points_call, schedule_call, compose_call, alert_call, lifecycle, send_calls,
                   callerView, now, store, pc, genLocals, sendLocals, hiLocals>>

\* await storage.get_briefing(briefing_id) returns; got keeps, for each id
\* read, what the call returned.
GetBriefingCall ==
    /\ \E briefing_id \in (SavedIds \cup {NonexistentId}) \ DOMAIN briefing_table.got :
          briefing_table' =
              [briefing_table EXCEPT !.got =
                  [id \in DOMAIN briefing_table.got \cup {briefing_id} |->
                      IF id = briefing_id THEN GetBriefing(briefing_table.rows, briefing_id)
                      ELSE briefing_table.got[id]]]
    /\ UNCHANGED <<config, fingerprinted, analyzer_args, analyzer, scorer, sentiment_call,
                   news_item, processed, batch, aggregate, key_points_call, schedule_call, compose_call, alert_call, lifecycle, send_calls,
                   callerView, now, store, pc, genLocals, sendLocals, hiLocals>>

NextBriefingTable == SaveBriefingCall \/ GetBriefingCall

\* save_briefing and get_briefing called in any order on the sample briefings.
SpecBriefingTable == InitWith(<<"email">>, << >>) /\ [][NextBriefingTable]_vars

\* C32: get_briefing(id), for an id save_briefing was given, returns a
\* briefing equal to the one last saved under that id in id, title, overall
\* sentiment, key points and content hash; for an id never saved it returns
\* None.
BriefingRoundTrip ==
    \A briefing_id \in DOMAIN briefing_table.got :
        LET returned == briefing_table.got[briefing_id]
        IN  IF briefing_id \in DOMAIN briefing_table.saved
            THEN /\ returned # << >>
                 /\ returned[1].id = briefing_table.saved[briefing_id].id
                 /\ returned[1].title = briefing_table.saved[briefing_id].title
                 /\ returned[1].overall_sentiment =
                        briefing_table.saved[briefing_id].overall_sentiment
                 /\ returned[1].key_points = briefing_table.saved[briefing_id].key_points
                 /\ returned[1].content_hash = briefing_table.saved[briefing_id].content_hash
            ELSE returned = << >>

\* A briefing whose title holds quotes and whose two key points hold quotes,
\* a comma, a bracket and a backslash was saved and read back, and an id that
\* was never saved was read and gave None.
BriefingRoundTripWitness ==
    /\ DOMAIN briefing_table.saved = SavedIds
    /\ DOMAIN briefing_table.got = SavedIds \cup {NonexistentId}
    /\ briefing_table.got[NonexistentId] = << >>
    /\ briefing_table.got[<<"b", "1">>] # << >>
    /\ briefing_table.got[<<"b", "1">>][1].title = <<Quote, "T", Quote>>
    /\ briefing_table.got[<<"b", "1">>][1].key_points =
           <<<<"a", Quote, ",", Quote, "b">>, <<"]", Backslash>>>>

\* ---- a cycle interrupted --------------------------------------------------
\* The coroutine of run_daily_briefing is cancelled while it waits at an
\* await (the scheduler shuts down, the loop stops): CancelledError is not an
\* Exception, so no except clause of the agent catches it; the cycle ends
\* where it stands and what it had committed stays in the store.
DailyInterrupted ==
    /\ pc["daily"] # "idle"
    /\ pc' = [pc EXCEPT !["daily"] = "idle"]
    /\ store_error' = [store_error EXCEPT !["daily"] = FALSE]
    /\ briefing' = [briefing EXCEPT !["daily"] = 0]
    /\ news' = [news EXCEPT !["daily"] = "none"]
    /\ indicators' = [indicators EXCEPT !["daily"] = << >>]
    /\ sent' = [sent EXCEPT !["daily"] = FALSE]
    /\ nidx' = [nidx EXCEPT !["daily"] = 0]
    /\ gate' = [gate EXCEPT !["daily"] = "none"]
    /\ ret' = [ret EXCEPT !["daily"] = "none"]
    /\ UNCHANGED <<config, analysis, send_calls, source_runs, fetch_return, delivered,
                   daily_result, now, store, trigger, hiLocals>>

\* The cancellation arrives inside one pass of the dispatch loop, after
\* notifier.send completed and while log_notification is awaited: the attempt
\* was made and no row of it is logged.
DispatchInterrupted ==
    /\ pc["daily"] = "send"
    /\ \E o \in SendOutcomes :
          /\ delivered' = IF o = "ok" THEN delivered \cup {briefing["daily"]} ELSE delivered
          /\ send_calls' = Append(send_calls,
                                  SendCall(briefing["daily"], notifiers[nidx["daily"]], o))
    /\ pc' = [pc EXCEPT !["daily"] = "idle"]
    /\ store_error' = [store_error EXCEPT !["daily"] = FALSE]
    /\ briefing' = [briefing EXCEPT !["daily"] = 0]
    /\ news' = [news EXCEPT !["daily"] = "none"]
    /\ indicators' = [indicators EXCEPT !["daily"] = << >>]
    /\ sent' = [sent EXCEPT !["daily"] = FALSE]
    /\ nidx' = [nidx EXCEPT !["daily"] = 0]
    /\ gate' = [gate EXCEPT !["daily"] = "none"]
    /\ ret' = [ret EXCEPT !["daily"] = "none"]
    /\ UNCHANGED <<config, analysis, source_runs, fetch_return, daily_result, now, store,
                   trigger, hiLocals>>

NextInterrupted ==
    \/ NextDaily
    \/ DailyInterrupted
    \/ DispatchInterrupted

\* The daily job, cancelled at any await.
SpecInterrupted == InitWith(<<"email">>, << >>) /\ [][NextInterrupted]_vars

\* C33: whatever await a cycle is interrupted at, every briefing of the store
\* with sent = true has sent_at set, has a notification_log row with
\* success = true for its id, and a notifier.send for it did return True.
ValidUnderInterruption ==
    \A k \in BriefingIds :
        briefings[k].sent =>
            /\ briefings[k].sent_at # << >>
            /\ \E n \in LogOf(k) : notification_log[n].success
            /\ k \in delivered

\* A cycle was interrupted after its successful attempt was logged and before
\* mark_briefing_sent: its briefing is unsent and no cycle holds it; another
\* briefing went through and is sent.
ValidUnderInterruptionWitness ==
    \E i, k \in BriefingIds :
        /\ \A p \in Cycles : briefing[p] # i
        /\ ~briefings[i].sent
        /\ \E n \in LogOf(i) : notification_log[n].success
        /\ briefings[k].sent

\* C34: no two briefings with the same content_hash are both marked sent
\* within one lookback window of each other: of two sent briefings with one
\* fingerprint, the one marked later was marked at least the lookback after
\* the other's created_at (the instant is_duplicate counts the window from).
NoDuplicateSentInWindow ==
    \A j, k \in BriefingIds :
        (j # k /\ briefings[j].sent /\ briefings[k].sent
             /\ briefings[j].content_hash = briefings[k].content_hash)
        => \/ briefings[k].sent_at[1] - briefings[j].created_at >= HoursLookback
           \/ briefings[j].sent_at[1] - briefings[k].created_at >= HoursLookback

\* ---- update_release_schedule called directly -------------------------------
\* if indicator.release_time >= datetime.utcnow()
IsUpcomingOrNow(indicator, t) == indicator.release_time >= t

\* if indicator.release_time > datetime.utcnow()
IsUpcoming(indicator, t) == indicator.release_time > t

\* The lists fetch_all_indicators may return here: one or two indicators of
\* the known releases, of distinct ids, in any order, each with the forecast
\* reported now.
IndicatorLists ==
    LET one == {<<EconomicIndicator(id, f)>> : id \in IndicatorIds, f \in Forecasts}
    IN  {<< >>} \cup one \cup {pair[1] \o pair[2] :
                                  pair \in {q \in one \X one : q[1][1].id # q[2][1].id}}

\* update_release_schedule is called; fetch_all_indicators returns.
ScheduleFetched ==
    /\ schedule_call.at = "idle"
    /\ \E inds \in IndicatorLists :
          schedule_call' = [at |-> "loop", left |-> inds, checked_at |-> now, done |-> << >>]
    /\ UNCHANGED <<config, fingerprinted, analyzer_args, analyzer, scorer, sentiment_call,
                   news_item, processed, batch, aggregate, key_points_call, briefing_table,
                   compose_call, alert_call, lifecycle, send_calls, callerView, now, store, pc, genLocals, sendLocals, hiLocals>>

\* The loop takes the next indicator and compares its release_time with
\* utcnow(): it goes on to await save_upcoming_release, or skips the
\* indicator; with no indicator left the method returns.
ScheduleCheck ==
    /\ schedule_call.at = "loop"
    /\ schedule_call' =
          IF schedule_call.left = << >> THEN [schedule_call EXCEPT !.at = "idle"]
          ELSE IF IsUpcoming(Head(schedule_call.left), now)
               THEN [schedule_call EXCEPT !.at = "save", !.checked_at = now]
          ELSE [schedule_call EXCEPT
                   !.left = Tail(schedule_call.left),
                   !.done = Append(schedule_call.done,
                                   [indicator |-> Head(schedule_call.left),
                                    checked_at |-> now, saved |-> FALSE])]
    /\ UNCHANGED <<config, fingerprinted, analyzer_args, analyzer, scorer, sentiment_call,
                   news_item, processed, batch, aggregate, key_points_call, briefing_table,
                   compose_call, alert_call, lifecycle, send_calls, callerView, now, store, pc, genLocals, sendLocals, hiLocals>>

\* await save_upcoming_release(UpcomingRelease(indicator=indicator)) completes.
ScheduleSave ==
    /\ schedule_call.at = "save"
    /\ releases' = SaveUpcomingRelease(releases, UpcomingRelease(Head(schedule_call.left)))
    /\ schedule_call' =
          [schedule_call EXCEPT
              !.at = "loop",
              !.left = Tail(schedule_call.left),
              !.done = Append(schedule_call.done,
                              [indicator |-> Head(schedule_call.left),
                               checked_at |-> schedule_call.checked_at, saved |-> TRUE])]
    /\ UNCHANGED <<config, fingerprinted, analyzer_args, analyzer, scorer, sentiment_call,
                   news_item, processed, batch, aggregate, key_points_call, briefing_table,
                   compose_call, alert_call, lifecycle, send_calls, callerView, now, briefings, notification_log, marked, pc,
                   genLocals, sendLocals, hiLocals>>

NextSchedule == Tick \/ ScheduleFetched \/ ScheduleCheck \/ ScheduleSave

\* update_release_schedule called again and again while time passes.
SpecSchedule == InitWith(<<"email">>, << >>) /\ [][NextSchedule]_vars

\* The row of the table for an id, << >> when there is none.
ReleaseRow(rel, id) == IF id \in DOMAIN rel THEN <<rel[id]>> ELSE << >>

\* C35: update_release_schedule writes a row only for the fetched indicator
\* whose release_time it has just found strictly after utcnow(), and the row
\* is that indicator's; the step that finds an indicator's release_time at or
\* before utcnow() leaves every row as it is, and so does every other step.
ScheduleOnlyFuture ==
    [][/\ \A id \in IndicatorIds :
             ReleaseRow(releases', id) # ReleaseRow(releases, id)
             => /\ schedule_call.at = "save"
                /\ Head(schedule_call.left).id = id
                /\ Head(schedule_call.left).release_time > schedule_call.checked_at
                /\ releases'[id].full_data.indicator = Head(schedule_call.left)
       /\ (/\ schedule_call.at = "loop"
           /\ schedule_call.left # << >>
           /\ Head(schedule_call.left).release_time <= now)
          => /\ releases' = releases
             /\ schedule_call'.at # "save"]_vars

\* In one call an indicator whose release time is now, stored earlier with
\* another forecast, was skipped and its row still holds the old forecast,
\* and an indicator released later was saved.
ScheduleOnlyFutureWitness ==
    \E j, k \in 1..Len(schedule_call.done) :
        LET skipped == schedule_call.done[j]
            saved == schedule_call.done[k]
        IN  /\ ~skipped.saved
            /\ skipped.indicator.release_time = skipped.checked_at
            /\ skipped.indicator.id \in DOMAIN releases
            /\ releases[skipped.indicator.id].full_data.indicator.forecast_value
                   # skipped.indicator.forecast_value
            /\ saved.saved
            /\ releases[saved.indicator.id].full_data.indicator = saved.indicator

\* ---- generate_briefing called directly: what the briefing retains ------------
\* The releases of a fuller calendar: six high-impact ones and the low-impact
\* pmi, all inside the week generate_briefing looks ahead.
CalendarIds == IndicatorIds \cup {"gdp", "ism", "ppi", "fomc"}

\* news_items[:10]
RetainedNews(news_items) ==
    SubSeq(news_items, 1,
           IF Len(news_items) < NewsItemsLimit THEN Len(news_items) ELSE NewsItemsLimit)

\* A release of the calendar is saved to the schedule, before the call.
CalendarReleaseSaved ==
    /\ compose_call = << >>
    /\ \E id \in CalendarIds \ DOMAIN releases :
          releases' = SaveUpcomingRelease(releases, UpcomingRelease(EconomicIndicator(id, "f1")))
    /\ UNCHANGED <<config, fingerprinted, analyzer_args, analyzer, scorer, sentiment_call,
                   news_item, processed, batch, aggregate, key_points_call, briefing_table,
                   schedule_call, compose_call, alert_call, lifecycle, send_calls, callerView, now, briefings,
                   notification_log, marked, pc, genLocals, sendLocals, hiLocals>>

\* generate_briefing(briefing_type, trigger_indicator) runs: fetch_all_news
\* returns some number of items (named here by their position),
\* get_upcoming_releases returns the stored high-impact releases, and the
\* briefing is built from news_items[:10] and indicators[:5].
GenerateBriefingComposed ==
    /\ compose_call = << >>
    /\ \E fetched_items \in 0..MaxFetched,
          trigger_indicator \in {<< >>} \cup {<<EconomicIndicator(id, "f2")>> : id \in CalendarIds} :
          compose_call' =
              <<[trigger_indicator |-> trigger_indicator,
                 fetched_items |-> fetched_items,
                 news_items |-> RetainedNews([k \in 1..fetched_items |-> k]),
                 indicators |-> RetainedIndicators(
                     GetUpcomingReleases(releases, now, WeekHoursAhead, TRUE),
                     trigger_indicator)]>>
    /\ UNCHANGED <<config, fingerprinted, analyzer_args, analyzer, scorer, sentiment_call,
                   news_item, processed, batch, aggregate, key_points_call, briefing_table,
                   schedule_call, alert_call, lifecycle, send_calls, callerView, now, store, pc,
                   genLocals, sendLocals, hiLocals>>

NextCompose == CalendarReleaseSaved \/ GenerateBriefingComposed

\* generate_briefing over every schedule drawn from the fuller calendar.
SpecCompose == InitWith(<<"email">>, << >>) /\ [][NextCompose]_vars

\* C36: the briefing generate_briefing builds retains at most 10 news items
\* and at most 5 indicators; a trigger indicator, when given, is the first
\* retained indicator; no indicator id is retained twice.
BriefingComposition ==
    compose_call # << >> =>
        LET b == compose_call[1]
        IN  /\ Len(b.news_items) <= 10
            /\ Len(b.indicators) <= 5
            /\ b.trigger_indicator # << >> =>
                  /\ b.indicators # << >>
                  /\ b.indicators[1] = b.trigger_indicator[1].id
            /\ \A j, k \in 1..Len(b.indicators) :
                  j # k => b.indicators[j] # b.indicators[k]

\* More than 10 items were fetched and six high-impact releases are stored,
\* the trigger's own among them: the briefing retains 10 items and 5
\* indicators.
BriefingCompositionWitness ==
    /\ compose_call # << >>
    /\ compose_call[1].fetched_items > 10
    /\ Len(compose_call[1].news_items) = 10
    /\ Cardinality({id \in DOMAIN releases : releases[id].impact_level = "high"}) = 6
    /\ compose_call[1].trigger_indicator # << >>
    /\ compose_call[1].trigger_indicator[1].id \in DOMAIN releases
    /\ compose_call[1].trigger_indicator[1].id # compose_call[1].indicators[2]
    /\ Len(compose_call[1].indicators) = 5

\* ---- the high-impact check and the releases that are due ---------------------
\* check_high_impact_releases is entered (one more run of the job).
AlertCheckStarts ==
    /\ pc["high_impact"] = "idle"
    /\ alert_call.runs < MaxChecks
    /\ alert_call' = [alert_call EXCEPT !.runs = alert_call.runs + 1]
    /\ pc' = [pc EXCEPT !["high_impact"] = "fetch_indicators"]
    /\ UNCHANGED <<config, fingerprinted, analyzer_args, analyzer, scorer, sentiment_call,
                   news_item, processed, batch, aggregate, key_points_call, briefing_table,
                   schedule_call, compose_call, lifecycle, send_calls, callerView, now, store,
                   genLocals, sendLocals, hiLocals>>

\* get_upcoming_releases(hours_ahead=1, high_impact_only=True) returns; the
\* history keeps the instant of the query, the table as it was and the number
\* of briefings stored so far.
AlertGetDueReleases ==
    /\ pc["high_impact"] = "get_due"
    /\ VisitReleases(LeftToNotify(GetUpcomingReleases(releases, now, DueHoursAhead, TRUE)))
    /\ alert_call' = [alert_call EXCEPT !.asked_at = now, !.stored = releases,
                                        !.first = Len(briefings)]
    /\ UNCHANGED <<config, fingerprinted, analyzer_args, analyzer, scorer, sentiment_call,
                   news_item, processed, batch, aggregate, key_points_call, briefing_table,
                   schedule_call, compose_call, lifecycle, send_calls, callerView, now, store, news,
                   indicators, sendLocals, fetched>>

NextAlert ==
    \/ Tick
    \/ AlertCheckStarts
    \/ FetchAllIndicators
    \/ UpdateReleaseSchedule
    \/ AlertGetDueReleases
    \/ GenerateAndSend("high_impact")
    \/ HighImpactMarkNotified

\* The high-impact check alone, over sources publishing two high-impact
\* releases, the later one fetched first.
SpecAlert == InitWith(<<"email">>, <<"nfp", "cpi">>) /\ [][NextAlert]_vars

\* The stored high-impact releases that were inside the lookahead window and
\* not notified when the cycle's query ran.
DueWhenAsked ==
    {id \in DOMAIN alert_call.stored :
        /\ alert_call.stored[id].impact_level = "high"
        /\ ~alert_call.stored[id].notified
        /\ alert_call.stored[id].release_time > alert_call.asked_at
        /\ alert_call.stored[id].release_time <= alert_call.asked_at + DueHoursAhead}

\* The briefings stored since the cycle's query.
StoredSinceAsked == (alert_call.first + 1)..Len(briefings)

\* C37: when a run of check_high_impact_releases ends, every stored
\* high-impact release that was due and not notified when the run asked for
\* the due releases has a high_impact briefing, stored since, with that
\* release as its trigger (storing it is the step that hands it to
\* send_briefing), and the briefings of the run were generated in ascending
\* order of their triggers' release times.
DueReleasesAlerted ==
    [][(pc["high_impact"] \in {"get_due", "returned"} /\ pc'["high_impact"] = "idle")
       => /\ \A id \in DueWhenAsked' :
                \E k \in StoredSinceAsked' :
                    /\ briefings'[k].briefing_type = "high_impact"
                    /\ briefings'[k].indicators # << >>
                    /\ briefings'[k].indicators[1] = id
          /\ \A j, k \in StoredSinceAsked' :
                j < k => ReleaseTimeOf(briefings'[j].indicators[1])
                             <= ReleaseTimeOf(briefings'[k].indicators[1])]_vars

\* A run has ended in which two releases were due, nfp (released later,
\* fetched first) and cpi: the briefing for cpi was stored first, the one for
\* nfp second.
DueReleasesAlertedWitness ==
    /\ pc["high_impact"] = "idle"
    /\ alert_call.runs > 0
    /\ DueWhenAsked = {"cpi", "nfp"}
    /\ Len(briefings) = alert_call.first + 2
    /\ briefings[alert_call.first + 1].indicators[1] = "cpi"
    /\ briefings[alert_call.first + 2].indicators[1] = "nfp"
    /\ briefings[alert_call.first + 2].briefing_type = "high_impact"

\* ---- start_scheduler / stop_scheduler ----------------------------------------
\* text.split(":"): the parts between the colons.
RECURSIVE SplitOnColon(_, _)
SplitOnColon(text, part) ==
    IF text = << >> THEN <<part>>
    ELSE IF Head(text) = ":" THEN <<part>> \o SplitOnColon(Tail(text), << >>)
    ELSE SplitOnColon(Tail(text), Append(part, Head(text)))

\* int(text) on a text of decimal digits: <<n>>; << >> where int raises
\* ValueError (no digits, or a character that is no digit).
RECURSIVE DigitsValue(_, _)
DigitsValue(text, n) ==
    IF text = << >> THEN n
    ELSE DigitsValue(Tail(text),
                     10 * n + ((CHOOSE k \in 1..Len(Digits) : Digits[k] = Head(text)) - 1))

IntOf(text) ==
    IF text # << >> /\ \A k \in 1..Len(text) : text[k] \in Range(Digits)
    THEN <<DigitsValue(text, 0)>> ELSE << >>

\* hour, minute = settings.daily_briefing_time.split(":"); int(hour),
\* int(minute): <<hour, minute>>, or << >> where a ValueError is raised (the
\* text has not exactly two parts, or a part is no integer).
BriefingTimeOf(text) ==
    LET parts == SplitOnColon(text, << >>)
    IN  IF Len(parts) # 2 THEN << >>
        ELSE IF IntOf(parts[1]) = << >> \/ IntOf(parts[2]) = << >> THEN << >>
        ELSE <<IntOf(parts[1])[1], IntOf(parts[2])[1]>>

\* The two jobs start_scheduler adds, in order.
SchedulerJobs(hour, minute) ==
    <<[id |-> "daily_briefing", trigger |-> "cron", hour |-> hour, minute |-> minute],
      [id |-> "high_impact_check", trigger |-> "interval", minutes |-> HighImpactCheckMinutes]>>

\* Values of MACRO_AGENT_DAILY_BRIEFING_TIME: the field is a free string.
BriefingTimes ==
    {<<"0", "8", ":", "0", "0">>, <<"1", "7", ":", "3", "0">>,
     <<"0", "8", "0", "0">>, <<"8", ":", "a", "m">>}

LifecycleCall(call, outcome) == [call |-> call, outcome |-> outcome]

\* Settings() reads the environment when the module is imported, before any
\* call on the agent.
SettingsLoaded ==
    /\ lifecycle.calls = << >>
    /\ \E text \in BriefingTimes : lifecycle' = [lifecycle EXCEPT !.daily_briefing_time = text]
    /\ UNCHANGED <<config, fingerprinted, analyzer_args, analyzer, scorer, sentiment_call,
                   news_item, processed, batch, aggregate, key_points_call, briefing_table,
                   schedule_call, compose_call, alert_call, send_calls, callerView, now,
                   store, pc, genLocals, sendLocals, hiLocals>>

\* start_scheduler(): returns at once when a scheduler exists; else assigns a
\* new AsyncIOScheduler to self._scheduler, parses the briefing time (a
\* ValueError leaves the method here), adds the two jobs, starts the
\* scheduler and sets self._running.
StartScheduler ==
    /\ Len(lifecycle.calls) < MaxCalls
    /\ lifecycle' =
          IF lifecycle.scheduler # << >>
          THEN [lifecycle EXCEPT
                   !.calls = Append(lifecycle.calls, LifecycleCall("start_scheduler", "returned"))]
          ELSE IF BriefingTimeOf(lifecycle.daily_briefing_time) = << >>
               THEN [lifecycle EXCEPT
                        !.scheduler = <<[serial |-> lifecycle.created + 1, jobs |-> << >>,
                                         started |-> FALSE]>>,
                        !.created = lifecycle.created + 1,
                        !.calls = Append(lifecycle.calls,
                                         LifecycleCall("start_scheduler", "raised"))]
          ELSE [lifecycle EXCEPT
                   !.scheduler =
                       <<[serial |-> lifecycle.created + 1,
                          jobs |-> SchedulerJobs(BriefingTimeOf(lifecycle.daily_briefing_time)[1],
                                                 BriefingTimeOf(lifecycle.daily_briefing_time)[2]),
                          started |-> TRUE]>>,
                   !.running = TRUE,
                   !.created = lifecycle.created + 1,
                   !.calls = Append(lifecycle.calls, LifecycleCall("start_scheduler", "returned"))]
    /\ UNCHANGED <<config, fingerprinted, analyzer_args, analyzer, scorer, sentiment_call,
                   news_item, processed, batch, aggregate, key_points_call, briefing_table,
                   schedule_call, compose_call, alert_call, send_calls, callerView, now,
                   store, pc, genLocals, sendLocals, hiLocals>>

\* stop_scheduler(): with a scheduler, shutdown(), then self._scheduler = None
\* and self._running = False; without one, nothing.  shutdown() of a
\* scheduler that was never started belongs to the scheduler library: it may
\* return or raise, and a raise leaves the method before the assignments.
StopScheduler ==
    /\ Len(lifecycle.calls) < MaxCalls
    /\ \E shutdown_raises \in BOOLEAN :
          lifecycle' =
              IF lifecycle.scheduler = << >>
              THEN [lifecycle EXCEPT
                       !.calls = Append(lifecycle.calls,
                                        LifecycleCall("stop_scheduler", "returned"))]
              ELSE IF ~lifecycle.scheduler[1].started /\ shutdown_raises
                   THEN [lifecycle EXCEPT
                            !.calls = Append(lifecycle.calls,
                                             LifecycleCall("stop_scheduler", "raised"))]
              ELSE [lifecycle EXCEPT
                       !.scheduler = << >>,
                       !.running = FALSE,
                       !.calls = Append(lifecycle.calls,
                                        LifecycleCall("stop_scheduler", "returned"))]
    /\ UNCHANGED <<config, fingerprinted, analyzer_args, analyzer, scorer, sentiment_call,
                   news_item, processed, batch, aggregate, key_points_call, briefing_table,
                   schedule_call, compose_call, alert_call, send_calls, callerView, now,
                   store, pc, genLocals, sendLocals, hiLocals>>

NextLifecycle == SettingsLoaded \/ StartScheduler \/ StopScheduler

\* An agent whose start_scheduler and stop_scheduler are called in any order.
SpecLifecycle == InitWith(<<"email">>, << >>) /\ [][NextLifecycle]_vars

\* The call a step makes, << >> when the step is no call.
CallMade ==
    IF Len(lifecycle'.calls) = Len(lifecycle.calls) + 1
    THEN <<lifecycle'.calls[Len(lifecycle'.calls)].call>> ELSE << >>

\* C38: after every step _running is true exactly when a scheduler object
\* exists; start_scheduler with a scheduler in place and stop_scheduler with
\* none change nothing; start_scheduler with no scheduler in place leaves a
\* scheduler never seen before that holds exactly the jobs daily_briefing and
\* high_impact_check.
SchedulerLifecycle ==
    [][/\ lifecycle'.running <=> lifecycle'.scheduler # << >>
       /\ (CallMade = <<"start_scheduler">> /\ lifecycle.scheduler # << >>)
          => /\ lifecycle'.scheduler = lifecycle.scheduler
             /\ lifecycle'.running = lifecycle.running
       /\ (CallMade = <<"stop_scheduler">> /\ lifecycle.scheduler = << >>)
          => /\ lifecycle'.scheduler = << >>
             /\ lifecycle'.running = lifecycle.running
       /\ (CallMade = <<"start_scheduler">> /\ lifecycle.scheduler = << >>)
          => /\ lifecycle'.scheduler # << >>
             /\ lifecycle'.scheduler[1].serial > lifecycle.created
             /\ [k \in 1..Len(lifecycle'.scheduler[1].jobs) |->
                    lifecycle'.scheduler[1].jobs[k].id]
                    = <<"daily_briefing", "high_impact_check">>]_vars

====
